---- MODULE Spec2Model ----
(***************************************************************************)
(* PhysioCore (physio_core/physio_core.py and physio_core/logic): the      *)
(* physiological pipeline Endocrine -> Blood -> Reflex -> Receptor ->      *)
(* Autonomic -> Vitals, as a state machine.                                *)
(*                                                                         *)
(* Numbers.  The program computes in floating point; the model computes in *)
(* fixed point over the integers, rounding every quotient down:            *)
(*   - dimensionless quantities (stimulus, adaptation, inhibition, noise,  *)
(*     autonomic levels, vagal tone, sensitization, occupation) are        *)
(*     thousandths (1000 stands for 1.0);                                  *)
(*   - concentrations are hundredths of a pg/mL, masses hundredths of a    *)
(*     pg, so that conc = mass / dist_volume_ml needs no rescaling;        *)
(*   - drive is in hundred-thousandths (the program snaps at 1e-4);       *)
(*   - times (dt, delays, half-lives, the wall clock) are whole seconds.   *)
(* The configuration (YAML files read at construction) is a small catalog  *)
(* of two hormones with scaled-down capacities.                            *)
(***************************************************************************)
EXTENDS Integers, Sequences, FiniteSets, TLC

VARIABLES
    clock,          \* time.time(): the wall clock, in seconds
    plasma,         \* BloodEngine.plasma: hormone_id -> concentration
    last_decay_ts,  \* BloodEngine.last_decay_ts: hormone_id -> wall-clock time
    influx_queue,   \* BloodEngine.influx_queue: <<release_time, hormone_id, mass_pg>>
    sim_time,       \* history: sum of the dt of the BloodEngine.step calls so far
    scheduled,      \* history: one record per apply_delayed_influx call
    applied,        \* history: how often each scheduled entry was injected
    last_op,        \* history: the last call made, and the plasma before it
    n_calls,        \* history: number of calls made so far
    states,         \* EndocrineController.states: hormone_id -> gland state
    receptors,      \* ReceptorEngine.receptors: (hormone_id, system_id) -> unit
    hpa_state,      \* HPARegulator._crh and _acth
    current_surges, \* FastReflexEngine.current_surges: receptor id -> surge
    autonomic_state,\* AutonomicResponseEngine.state
    vitals,         \* VitalsEngine: bpm, rpm, breath_phase, vagus_tone
    last_tick       \* history: the last PhysioCore tick, what it handed on and returned

bloodVars == <<plasma, last_decay_ts, influx_queue, applied>>
bloodHistory == <<sim_time, scheduled>>
endocrineVars == <<states>>
receptorVars == <<receptors>>
tickVars == <<hpa_state, current_surges, autonomic_state, vitals, last_tick>>
vars == <<clock, bloodVars, bloodHistory, last_op, n_calls, endocrineVars, receptorVars,
          tickVars>>

----------------------------------------------------------------------------
(* Bounds of the exploration *)
MaxClock == 2
MaxCalls == 3
MaxEndoSteps == 3
MaxReceptorCalls == 3
MaxTicks == 3

----------------------------------------------------------------------------
(* Helpers *)
Max(a, b) == IF a >= b THEN a ELSE b
Min(a, b) == IF a <= b THEN a ELSE b

clamp(x, lo, hi) == Max(lo, Min(hi, x))

\* a / b on a signed numerator, rounded toward zero (b > 0)
Quot(a, b) == IF a >= 0 THEN a \div b ELSE 0 - ((0 - a) \div b)

\* dict.get(k, default)
Get(f, k, default) == IF k \in DOMAIN f THEN f[k] ELSE default

\* d[k] = v on a dict
Put(f, k, v) == [x \in DOMAIN f \cup {k} |-> IF x = k THEN v ELSE f[x]]

----------------------------------------------------------------------------
(* Configuration: the hormone catalog (hormone_spec_ml.yaml, chemical_specs) *)

ADRENALINE == "ESC_H01_ADRENALINE"
CORTISOL == "ESC_H02_CORTISOL"

\* gland_data / BloodEngine.hormone_specs
hormone_specs ==
    ADRENALINE :> [baseline |-> 250, half_life_sec |-> 2,
                   max_capacity |-> 2000, refill_rate_base |-> 100,
                   max_output_dt |-> 400, latency_sec |-> 2]
    @@
    CORTISOL   :> [baseline |-> 50, half_life_sec |-> 4,
                   max_capacity |-> 1000, refill_rate_base |-> 50,
                   max_output_dt |-> 200, latency_sec |-> 4]

Catalog == DOMAIN hormone_specs

\* Hormone ids a caller may name: the catalog, the id the stress axis uses,
\* and an id no configuration knows.
HormoneIds == Catalog \cup {"COR", "ESC_X99_UNKNOWN"}

(* Configuration: blood (subsystems.blood) *)
dist_volume_ml == 4
base_flow_ml_sec == 80
min_flow == 40
max_flow == 300
conc_min == 0
conc_max == 800
clearance_flow_coupling == TRUE

----------------------------------------------------------------------------
(* math.exp on a negative exponent, by eighths: e^(-q/8), in thousandths *)
ExpEighth(q) ==
    CASE q = 0 -> 1000 [] q = 1 -> 882 [] q = 2 -> 779 [] q = 3 -> 687
      [] q = 4 -> 607  [] q = 5 -> 535 [] q = 6 -> 472 [] q = 7 -> 417

RECURSIVE MulExpNeg(_, _)
\* x * math.exp(-q/8), for x >= 0
MulExpNeg(x, q) ==
    IF q >= 8 THEN MulExpNeg((x * 368) \div 1000, q - 8)
    ELSE (x * ExpEighth(q)) \div 1000

\* LN2 = math.log(2), in thousandths
LN2 == 693

----------------------------------------------------------------------------
(* BloodEngine *)

\* the blood record the operators below pass along
Blood == [plasma |-> plasma, last_decay_ts |-> last_decay_ts, influx_queue |-> influx_queue,
          applied |-> applied]

\* BloodEngine._apply_decay_with_dt as in a build that still decays toward
\* the hormone's baseline
ApplyDecayWithDtToBaseline(b, hormone_id, now, flow, dt) ==
    IF hormone_id \notin DOMAIN hormone_specs THEN b
    ELSE IF dt <= 0 THEN b
    ELSE
      LET base == hormone_specs[hormone_id].baseline
          cur == Get(b.plasma, hormone_id, 0)
          half_life == hormone_specs[hormone_id].half_life_sec
          q == (8 * LN2 * dt) \div (1000 * Max(1, half_life))
          decayed == base + (IF cur >= base THEN MulExpNeg(cur - base, q)
                             ELSE 0 - MulExpNeg(base - cur, q))
      IN [b EXCEPT !.plasma = Put(b.plasma, hormone_id, clamp(decayed, conc_min, conc_max)),
                   !.last_decay_ts = Put(b.last_decay_ts, hormone_id, now)]

\* BloodEngine._apply_decay_with_dt
ApplyDecayWithDt(b, hormone_id, now, flow, dt) ==
    IF hormone_id \notin DOMAIN hormone_specs THEN b
    ELSE IF dt <= 0 THEN b
    ELSE
      LET half_life == hormone_specs[hormone_id].half_life_sec
          \* k = LN2 / max(1.0, half_life), times flow_norm when coupled;
          \* k * dt in eighths
          flow_norm == IF clearance_flow_coupling
                       THEN clamp((flow * 1000) \div base_flow_ml_sec, 500, 4000)
                       ELSE 1000
          q == (8 * LN2 * dt * flow_norm) \div (1000 * 1000 * Max(1, half_life))
          cur == Get(b.plasma, hormone_id, 0)
          decayed == IF cur > 0 THEN MulExpNeg(cur, q) ELSE cur
          floored == IF decayed < conc_min THEN conc_min ELSE decayed
      IN [b EXCEPT !.plasma = Put(b.plasma, hormone_id, clamp(floored, conc_min, conc_max)),
                   !.last_decay_ts = Put(b.last_decay_ts, hormone_id, now)]

\* BloodEngine._apply_decay: reading last_decay_ts[hormone_id] on the
\* defaultdict inserts time.time() for an id it does not hold
ApplyDecay(b, hormone_id, now, flow) ==
    LET b1 == IF hormone_id \in DOMAIN b.last_decay_ts THEN b
              ELSE [b EXCEPT !.last_decay_ts = Put(b.last_decay_ts, hormone_id, now)]
        dt == now - b1.last_decay_ts[hormone_id]
    IN ApplyDecayWithDt(b1, hormone_id, now, flow, dt)

\* BloodEngine.apply_hormone_influx without the final clamp
ApplyHormoneInfluxNoClamp(b, hormone_id, mass_pg, now) ==
    LET b1 == ApplyDecay(b, hormone_id, now, base_flow_ml_sec)
        delta_conc == Quot(mass_pg, dist_volume_ml)
    IN [b1 EXCEPT !.plasma = Put(b1.plasma, hormone_id, Get(b1.plasma, hormone_id, 0) + delta_conc)]

\* BloodEngine.apply_hormone_influx
ApplyHormoneInflux(b, hormone_id, mass_pg, now) ==
    LET b1 == ApplyDecay(b, hormone_id, now, base_flow_ml_sec)
        delta_conc == Quot(mass_pg, dist_volume_ml)
        summed == Get(b1.plasma, hormone_id, 0) + delta_conc
    IN [b1 EXCEPT !.plasma = Put(b1.plasma, hormone_id, clamp(summed, conc_min, conc_max))]

\* BloodEngine.step, "passive decay": every hormone the plasma store holds
\* decays by dt (the hormones are independent of each other)
DecayAll(b, now, eff_flow, dt) ==
    [b EXCEPT
       !.plasma = [h \in DOMAIN b.plasma |->
                      ApplyDecayWithDt(b, h, now, eff_flow, dt).plasma[h]],
       !.last_decay_ts = [h \in DOMAIN b.last_decay_ts |->
                      ApplyDecayWithDt(b, h, now, eff_flow, dt).last_decay_ts[h]]]

RECURSIVE ProcessInfluxQueue(_, _, _)
\* BloodEngine.step, "Process Influx Queue": the entries of `queue` in order;
\* returns the blood with remaining_queue as its influx_queue
ProcessInfluxQueue(b, queue, now) ==
    IF queue = <<>> THEN b
    ELSE LET e == Head(queue)
         IN IF now >= e.release_ts
            THEN ProcessInfluxQueue(
                    [ApplyHormoneInflux(b, e.hormone_id, e.mass_pg, now)
                        EXCEPT !.applied[e.id] = @ + 1],
                    Tail(queue), now)
            ELSE ProcessInfluxQueue([b EXCEPT !.influx_queue = Append(@, e)],
                                    Tail(queue), now)

\* BloodEngine.step in a build that applies the due entries and keeps the queue
BloodStepKeepQueue(b, dt, flow_factor, now) ==
    LET eff_flow == clamp((base_flow_ml_sec * flow_factor) \div 1000, min_flow, max_flow)
        b1 == DecayAll(b, now, eff_flow, dt)
        b2 == ProcessInfluxQueue([b1 EXCEPT !.influx_queue = <<>>], b1.influx_queue, now)
    IN [b2 EXCEPT !.influx_queue = b1.influx_queue]

\* BloodEngine.step
BloodStep(b, dt, flow_factor, now) ==
    LET eff_flow == clamp((base_flow_ml_sec * flow_factor) \div 1000, min_flow, max_flow)
        b1 == DecayAll(b, now, eff_flow, dt)
    IN ProcessInfluxQueue([b1 EXCEPT !.influx_queue = <<>>], b1.influx_queue, now)

\* BloodEngine.apply_delayed_influx (entry_id is the history's name of the entry)
ApplyDelayedInflux(b, hormone_id, mass_pg, delay_sec, now, entry_id) ==
    [b EXCEPT !.influx_queue =
                 Append(@, [release_ts |-> now + delay_sec, hormone_id |-> hormone_id,
                            mass_pg |-> mass_pg, id |-> entry_id]),
              !.applied = Append(@, 0)]

\* BloodEngine.get_concentrations
GetConcentrations(b, now) ==
    [b EXCEPT
       !.plasma = [h \in DOMAIN b.plasma |->
                      ApplyDecay(b, h, now, base_flow_ml_sec).plasma[h]],
       !.last_decay_ts = [h \in DOMAIN b.last_decay_ts \cup DOMAIN b.plasma |->
                      ApplyDecay(b, h, now, base_flow_ml_sec).last_decay_ts[h]]]

\* BloodEngine.load_hormone_specs at time.time() = 0
InitialPlasma == [h \in Catalog |-> hormone_specs[h].baseline]

SetBlood(b) ==
    /\ plasma' = b.plasma
    /\ last_decay_ts' = b.last_decay_ts
    /\ influx_queue' = b.influx_queue
    /\ applied' = b.applied

----------------------------------------------------------------------------
(* EndocrineGland (logic/endocrine/glands.py) and constants.py.            *)
(* A gland state is [inventory, adaptation, drive, last_flux_pg,           *)
(* basal_rate_pg_sec]: inventory, flux and basal rate in hundredths of a   *)
(* pg, adaptation in thousandths, drive in hundred-thousandths.            *)

ADAPTATION_MIN == 100
ADAPTATION_MAX == 1000
DRIVE_MAX == 1000000

\* EndocrineGland.__init__
inventory_max(h) == hormone_specs[h].max_capacity
refill_rate(h) == hormone_specs[h].refill_rate_base
max_rate_sec(h) == hormone_specs[h].max_output_dt
latency_tau(h) == Max(1, hormone_specs[h].latency_sec)
baseline_pg_ml(h) == hormone_specs[h].baseline

\* PhysioCore.__init__, "Calibrate Basals": k * target_pg_ml * dist_vol
gland_basal_rates ==
    [h \in Catalog |->
        (LN2 * hormone_specs[h].baseline * dist_volume_ml)
            \div (1000 * Max(1, hormone_specs[h].half_life_sec))]

\* EndocrineGland.create_initial_state, with the calibrated basal rate
\* PhysioCore.__init__ then stores in it
InitialGlandState(h) ==
    [inventory |-> inventory_max(h), adaptation |-> 1000, drive |-> 0,
     last_flux_pg |-> 0, basal_rate_pg_sec |-> gland_basal_rates[h]]

\* EndocrineGland._hill_response: drive -> intensity in thousandths
\* (k = 2.5, n = 3; the drive is read in hundredths so that the cubes fit)
HillResponse(x) ==
    IF x <= 0 THEN 0
    ELSE LET xh == x \div 1000
             x3 == xh * xh * xh
             k3 == 250 * 250 * 250
         IN x3 \div ((k3 + x3) \div 1000)

\* EndocrineGland.trigger_nerve_surge in a build without the floor on adaptation
TriggerNerveSurgeNoFloor(h, state, stimulus_intensity) ==
    IF stimulus_intensity < 800 THEN [released |-> 0, state |-> state]
    ELSE
      LET surge_fraction == (400 * stimulus_intensity) \div 1000
          potential_pg == (state.inventory * surge_fraction) \div 1000
          released_pg == Min((potential_pg * state.adaptation) \div 1000, state.inventory)
      IN [released |-> released_pg,
          state |-> [state EXCEPT
             !.inventory = @ - released_pg,
             !.drive = Min(DRIVE_MAX, @ + stimulus_intensity * 500),
             !.adaptation = @ - (stimulus_intensity * 150) \div 1000,
             !.last_flux_pg = released_pg]]

\* EndocrineGland.trigger_nerve_surge
TriggerNerveSurge(h, state, stimulus_intensity) ==
    IF stimulus_intensity < 800 THEN [released |-> 0, state |-> state]
    ELSE
      LET surge_fraction == (400 * stimulus_intensity) \div 1000
          potential_pg == (state.inventory * surge_fraction) \div 1000
          released_pg == Min((potential_pg * state.adaptation) \div 1000, state.inventory)
      IN [released |-> released_pg,
          state |-> [state EXCEPT
             !.inventory = @ - released_pg,
             !.drive = Min(DRIVE_MAX, @ + stimulus_intensity * 500),
             !.adaptation = Max(ADAPTATION_MIN, @ - (stimulus_intensity * 150) \div 1000),
             !.last_flux_pg = released_pg]]

\* EndocrineGland.process_step in a build that releases the whole potential,
\* not capped at the inventory
ProcessStepUncapped(h, state, stimulus, dt, inhibition, noise) ==
    LET inhibition_mult == 1000 - Max(0, Min(900, inhibition))
        noise_factor == 1000 + noise
        effective_basal ==
            (((state.basal_rate_pg_sec * noise_factor) \div 1000) * inhibition_mult) \div 1000
        basal_pg == effective_basal * dt
        inventory1 == Min(inventory_max(h), state.inventory + refill_rate(h) * dt)
        adaptation1 == IF stimulus > 50
                       THEN Max(ADAPTATION_MIN, state.adaptation - (stimulus * 50 * dt) \div 1000)
                       ELSE Min(ADAPTATION_MAX, state.adaptation + 20 * dt)
        drive1 == IF stimulus > 50
                  THEN Min(DRIVE_MAX, state.drive + stimulus * dt * 200)
                  ELSE state.drive
        intensity == HillResponse(drive1)
        stimulated_rate == (((max_rate_sec(h) * intensity) \div 1000) * adaptation1) \div 1000
        potential_stimulated_pg == (stimulated_rate * dt * inhibition_mult) \div 1000
        released_pg == potential_stimulated_pg + basal_pg
        drive2 == MulExpNeg(drive1, (8 * dt) \div latency_tau(h))
    IN [released |-> released_pg,
        state |-> [state EXCEPT
           !.inventory = inventory1 - released_pg,
           !.adaptation = adaptation1,
           !.drive = IF drive2 < 10 THEN 0 ELSE drive2,
           !.last_flux_pg = released_pg]]

\* EndocrineGland.process_step in a build that takes a stimulus of exactly
\* 0.05 as a stimulation
ProcessStepThresholdInclusive(h, state, stimulus, dt, inhibition, noise) ==
    LET inhibition_mult == 1000 - Max(0, Min(900, inhibition))
        noise_factor == 1000 + noise
        effective_basal ==
            (((state.basal_rate_pg_sec * noise_factor) \div 1000) * inhibition_mult) \div 1000
        basal_pg == effective_basal * dt
        inventory1 == Min(inventory_max(h), state.inventory + refill_rate(h) * dt)
        adaptation1 == IF stimulus >= 50
                       THEN Max(ADAPTATION_MIN, state.adaptation - (stimulus * 50 * dt) \div 1000)
                       ELSE Min(ADAPTATION_MAX, state.adaptation + 20 * dt)
        drive1 == IF stimulus >= 50
                  THEN Min(DRIVE_MAX, state.drive + stimulus * dt * 200)
                  ELSE state.drive
        intensity == HillResponse(drive1)
        stimulated_rate == (((max_rate_sec(h) * intensity) \div 1000) * adaptation1) \div 1000
        potential_stimulated_pg == (stimulated_rate * dt * inhibition_mult) \div 1000
        total_potential_pg == potential_stimulated_pg + basal_pg
        released_pg == Min(total_potential_pg, inventory1)
        drive2 == MulExpNeg(drive1, (8 * dt) \div latency_tau(h))
    IN [released |-> released_pg,
        state |-> [state EXCEPT
           !.inventory = inventory1 - released_pg,
           !.adaptation = adaptation1,
           !.drive = IF drive2 < 10 THEN 0 ELSE drive2,
           !.last_flux_pg = released_pg]]

\* EndocrineGland.process_step in a build that does not clamp the inhibition
ProcessStepInhibitionUnclamped(h, state, stimulus, dt, inhibition, noise) ==
    LET inhibition_mult == 1000 - inhibition
        noise_factor == 1000 + noise
        effective_basal ==
            (((state.basal_rate_pg_sec * noise_factor) \div 1000) * inhibition_mult) \div 1000
        basal_pg == effective_basal * dt
        inventory1 == Min(inventory_max(h), state.inventory + refill_rate(h) * dt)
        adaptation1 == IF stimulus > 50
                       THEN Max(ADAPTATION_MIN, state.adaptation - (stimulus * 50 * dt) \div 1000)
                       ELSE Min(ADAPTATION_MAX, state.adaptation + 20 * dt)
        drive1 == IF stimulus > 50
                  THEN Min(DRIVE_MAX, state.drive + stimulus * dt * 200)
                  ELSE state.drive
        intensity == HillResponse(drive1)
        stimulated_rate == (((max_rate_sec(h) * intensity) \div 1000) * adaptation1) \div 1000
        potential_stimulated_pg == (stimulated_rate * dt * inhibition_mult) \div 1000
        total_potential_pg == potential_stimulated_pg + basal_pg
        released_pg == Min(total_potential_pg, inventory1)
        drive2 == MulExpNeg(drive1, (8 * dt) \div latency_tau(h))
    IN [released |-> released_pg,
        state |-> [state EXCEPT
           !.inventory = inventory1 - released_pg,
           !.adaptation = adaptation1,
           !.drive = IF drive2 < 10 THEN 0 ELSE drive2,
           !.last_flux_pg = released_pg]]

\* EndocrineGland.process_step in a build that does not take the released
\* mass out of the inventory
ProcessStepNoDebit(h, state, stimulus, dt, inhibition, noise) ==
    LET inhibition_mult == 1000 - Max(0, Min(900, inhibition))
        noise_factor == 1000 + noise
        effective_basal ==
            (((state.basal_rate_pg_sec * noise_factor) \div 1000) * inhibition_mult) \div 1000
        basal_pg == effective_basal * dt
        inventory1 == Min(inventory_max(h), state.inventory + refill_rate(h) * dt)
        adaptation1 == IF stimulus > 50
                       THEN Max(ADAPTATION_MIN, state.adaptation - (stimulus * 50 * dt) \div 1000)
                       ELSE Min(ADAPTATION_MAX, state.adaptation + 20 * dt)
        drive1 == IF stimulus > 50
                  THEN Min(DRIVE_MAX, state.drive + stimulus * dt * 200)
                  ELSE state.drive
        intensity == HillResponse(drive1)
        stimulated_rate == (((max_rate_sec(h) * intensity) \div 1000) * adaptation1) \div 1000
        potential_stimulated_pg == (stimulated_rate * dt * inhibition_mult) \div 1000
        total_potential_pg == potential_stimulated_pg + basal_pg
        released_pg == Min(total_potential_pg, inventory1)
        drive2 == MulExpNeg(drive1, (8 * dt) \div latency_tau(h))
    IN [released |-> released_pg,
        state |-> [state EXCEPT
           !.inventory = inventory1,
           !.adaptation = adaptation1,
           !.drive = IF drive2 < 10 THEN 0 ELSE drive2,
           !.last_flux_pg = released_pg]]

\* EndocrineGland.process_step; noise is the draw of random.uniform(-0.1, 0.1)
ProcessStep(h, state, stimulus, dt, inhibition, noise) ==
    LET inhibition_mult == 1000 - Max(0, Min(900, inhibition))
        noise_factor == 1000 + noise
        effective_basal ==
            (((state.basal_rate_pg_sec * noise_factor) \div 1000) * inhibition_mult) \div 1000
        basal_pg == effective_basal * dt
        inventory1 == Min(inventory_max(h), state.inventory + refill_rate(h) * dt)
        adaptation1 == IF stimulus > 50
                       THEN Max(ADAPTATION_MIN, state.adaptation - (stimulus * 50 * dt) \div 1000)
                       ELSE Min(ADAPTATION_MAX, state.adaptation + 20 * dt)
        drive1 == IF stimulus > 50
                  THEN Min(DRIVE_MAX, state.drive + stimulus * dt * 200)
                  ELSE state.drive
        intensity == HillResponse(drive1)
        stimulated_rate == (((max_rate_sec(h) * intensity) \div 1000) * adaptation1) \div 1000
        potential_stimulated_pg == (stimulated_rate * dt * inhibition_mult) \div 1000
        total_potential_pg == potential_stimulated_pg + basal_pg
        released_pg == Min(total_potential_pg, inventory1)
        drive2 == MulExpNeg(drive1, (8 * dt) \div latency_tau(h))
    IN [released |-> released_pg,
        state |-> [state EXCEPT
           !.inventory = inventory1 - released_pg,
           !.adaptation = adaptation1,
           !.drive = IF drive2 < 10 THEN 0 ELSE drive2,
           !.last_flux_pg = released_pg]]

(* EndocrineController (logic/endocrine/EndocrineController.py) *)

\* EndocrineController.step, one gland: <<total_pg, new state>>
GlandStep(h, state, stimuli, dt, inhibition, noise) ==
    LET stimulus == Get(stimuli, h, 0)
        surge == TriggerNerveSurge(h, state, stimulus)
        flux == ProcessStep(h, surge.state, stimulus, dt, inhibition, noise)
    IN [total_pg |-> surge.released + flux.released, state |-> flux.state]

\* EndocrineController.step: noise[h] is the basal-noise draw of gland h
EndocrineStep(st, stimuli, dt, inhibition, noise) ==
    LET out == [h \in Catalog |-> GlandStep(h, st[h], stimuli, dt, inhibition, noise[h])]
    IN [released_pg |-> [h \in {g \in Catalog : out[g].total_pg > 0} |-> out[h].total_pg],
        gland_state |-> [h \in Catalog |-> out[h].state]]

----------------------------------------------------------------------------
(* ReceptorUnit (logic/receptor/receptor_unit.py) and ReceptorEngine.      *)
(* A unit is [sensitization, occupation_rate], both in thousandths; kd is  *)
(* a concentration (hundredths of a pg/mL).                                *)

\* subsystems.receptors.receptor_mapping: hormone_id -> system_id -> spec
receptor_mapping ==
    ADRENALINE :> ("cardiac" :> [kd |-> 200, max_density |-> 2, efficacy |-> 1000, hill_n |-> 1])
    @@
    CORTISOL :> ("metabolic" :> [kd |-> 100, max_density |-> 1, efficacy |-> 500, hill_n |-> 2])

\* the (hormone_id, system_id) pairs ReceptorEngine._build_engine creates
ReceptorIds ==
    UNION {{<<h, sy>> : sy \in DOMAIN receptor_mapping[h]} : h \in DOMAIN receptor_mapping}

ReceptorSpec(r) == receptor_mapping[r[1]][r[2]]

\* ReceptorUnit.__init__
InitialReceptor == [sensitization |-> 1000, occupation_rate |-> 0]

\* x ** n for n in {1, 2}
Pow(x, n) == IF n = 1 THEN x ELSE x * x

\* occ = eff ** n / (kd ** n + eff ** n), in thousandths (for n = 2 the
\* concentrations are read in tenths of a pg/mL so that the squares fit)
HillOccupation(eff, kd, n) ==
    LET sc == IF n = 1 THEN 1 ELSE 10
        e == Pow(eff \div sc, n)
        k == Pow(kd \div sc, n)
    IN IF k + e = 0 THEN 1000 ELSE (e * 1000) \div (k + e)

\* ReceptorUnit._update_plasticity without np.clip
UpdatePlasticityNoClip(unit, dt) ==
    LET occ == unit.occupation_rate
        target == IF occ > 700 THEN Max(200, 1000 - (occ - 700)) ELSE 1000
        tau == IF occ > 700 THEN 3600 ELSE 7200
    IN [unit EXCEPT !.sensitization = @ + Quot((target - @) * dt, tau)]

\* ReceptorUnit._update_plasticity
UpdatePlasticity(unit, dt) ==
    LET occ == unit.occupation_rate
        target == IF occ > 700 THEN Max(200, 1000 - (occ - 700)) ELSE 1000
        tau == IF occ > 700 THEN 3600 ELSE 7200
        moved == unit.sensitization + Quot((target - unit.sensitization) * dt, tau)
    IN [unit EXCEPT !.sensitization = clamp(moved, 100, 2000)]

\* ReceptorUnit.calculate_signal in a build whose early return leaves the
\* occupation as it was
CalculateSignalKeepOccupation(r, unit, concentration, dt) ==
    LET effective_conc == Quot(concentration * unit.sensitization, 1000)
    IN IF effective_conc <= 0
       THEN [signal |-> 0, unit |-> unit]
       ELSE LET occ == HillOccupation(effective_conc, ReceptorSpec(r).kd, ReceptorSpec(r).hill_n)
                signal == (occ * ReceptorSpec(r).max_density * ReceptorSpec(r).efficacy) \div 1000
            IN [signal |-> signal,
                unit |-> UpdatePlasticity([unit EXCEPT !.occupation_rate = occ], dt)]

\* ReceptorUnit.calculate_signal: [signal (thousandths), unit]
CalculateSignal(r, unit, concentration, dt) ==
    LET effective_conc == Quot(concentration * unit.sensitization, 1000)
    IN IF effective_conc <= 0
       THEN [signal |-> 0, unit |-> [unit EXCEPT !.occupation_rate = 0]]
       ELSE LET occ == HillOccupation(effective_conc, ReceptorSpec(r).kd, ReceptorSpec(r).hill_n)
                signal == (occ * ReceptorSpec(r).max_density * ReceptorSpec(r).efficacy) \div 1000
            IN [signal |-> signal,
                unit |-> UpdatePlasticity([unit EXCEPT !.occupation_rate = occ], dt)]

----------------------------------------------------------------------------
(* HPARegulator (logic/endocrine/HPARegulator.py): [crh, acth] in thousandths *)

\* subsystems.endocrine_regulation: HPA_axis and global
hpa_alpha == 50
hypothalamus_input == "stress_signal" :> 1000
hypothalamus_gain == 1000
hypothalamus_baseline == 100
pituitary_gain == 900
adrenal_gain == 1000
feedback_threshold == 100
feedback_strength == 700
stimulus_min == 0
stimulus_max == 5000

\* sum of f[k] * g[k] / 1000 over the keys k of `keys`
RECURSIVE WeightedSum(_, _, _)
WeightedSum(keys, f, g) ==
    IF keys = {} THEN 0
    ELSE LET k == CHOOSE x \in keys : TRUE
         IN Quot(Get(f, k, 0) * Get(g, k, 0), 1000) + WeightedSum(keys \ {k}, f, g)

\* sigmoid, argument and value in thousandths
Sigmoid(x) ==
    IF x < -50000 THEN 0
    ELSE IF x > 50000 THEN 1000
    ELSE IF x >= 0 THEN 1000000 \div (1000 + MulExpNeg(1000, (8 * x) \div 1000))
    ELSE 1000 - 1000000 \div (1000 + MulExpNeg(1000, (8 * (0 - x)) \div 1000))

\* HPARegulator._ema
HpaEma(prev, target) == Quot(hpa_alpha * target, 1000) + Quot((1000 - hpa_alpha) * prev, 1000)

\* HPARegulator.step: [out (stimulus modifiers), hpa (new crh, acth)];
\* plasma_snapshot values are concentrations, threshold a concentration
HpaStep(hpa, stress_inputs, plasma_snapshot, dt) ==
    LET drive == WeightedSum(DOMAIN hypothalamus_input, stress_inputs, hypothalamus_input)
        target_crh == hypothalamus_baseline + Quot(hypothalamus_gain * drive, 1000)
        crh == HpaEma(hpa.crh, target_crh)
        target_acth == Quot(crh * pituitary_gain, 1000)
        acth == HpaEma(hpa.acth, target_acth)
        cortisol_drive == Quot(acth * adrenal_gain, 1000)
        cor_level == Get(plasma_snapshot, "COR", 0)
        inhibition == Sigmoid((cor_level - feedback_threshold) * 50)
        inhibited == IF DOMAIN plasma_snapshot # {}
                     THEN Quot(cortisol_drive * (1000 - Quot(feedback_strength * inhibition, 1000)),
                               1000)
                     ELSE cortisol_drive
    IN [out |-> "COR" :> clamp(inhibited, stimulus_min, stimulus_max),
        hpa |-> [crh |-> crh, acth |-> acth]]

(* CircadianController (logic/endocrine/CircadianController.py) *)

\* subsystems.endocrine_regulation.circadian
zeitgeber_gains == "daylight" :> 200
hormone_modulation ==
    CORTISOL :> [start_hour |-> 6, end_hour |-> 10, amplitude |-> 300]
circadian_clamp == <<0, 5000>>

\* CircadianController._in_window
InWindow(hour, start, end) ==
    IF start <= end THEN start <= hour /\ hour < end
    ELSE hour >= start \/ hour < end

\* CircadianController.step; hour is that of datetime.now()
CircadianStep(zeitgeber_inputs, hour) ==
    LET z_drive == WeightedSum(DOMAIN zeitgeber_gains, zeitgeber_inputs, zeitgeber_gains)
    IN [h \in DOMAIN hormone_modulation |->
          LET win == hormone_modulation[h]
              value == (IF InWindow(hour, win.start_hour, win.end_hour) THEN win.amplitude ELSE 0)
                       + z_drive
          IN clamp(value, circadian_clamp[1], circadian_clamp[2])]

(* PhysioCore: the stimulus mapping *)

\* chemical_specs[h].stimulus_mapping: hormone_id -> trigger -> weight
stimulus_mapping ==
    ADRENALINE :> ("acute_threat" :> 1500)
    @@
    CORTISOL :> ("acute_threat" :> 500 @@ "stress_signal" :> 800)

\* PhysioCore.stimulus_map: the triggers some hormone maps
MappedTriggers == UNION {DOMAIN stimulus_mapping[h] : h \in DOMAIN stimulus_mapping}

\* _run_tick, "Apply Direct Stimulus Mappings": the delta the named stimuli
\* of eva_stimuli add to hormone h
RECURSIVE MappedDelta(_, _, _)
MappedDelta(triggers, eva_stimuli, h) ==
    IF triggers = {} THEN 0
    ELSE LET t == CHOOSE x \in triggers : TRUE
         IN (IF t \in DOMAIN eva_stimuli /\ t \in DOMAIN stimulus_mapping[h]
             THEN Quot(eva_stimuli[t] * stimulus_mapping[h][t], 1000) ELSE 0)
            + MappedDelta(triggers \ {t}, eva_stimuli, h)

\* _run_tick, steps 1 and 2 of the tick without "Clamp Final Inputs"
EndoStimuliOfUnclamped(hpa_mod, circ_mod, eva_stimuli) ==
    LET mapped == {h \in DOMAIN stimulus_mapping :
                      \E t \in DOMAIN eva_stimuli : t \in DOMAIN stimulus_mapping[h]}
        keys == DOMAIN hpa_mod \cup DOMAIN circ_mod \cup mapped
    IN [k \in keys |->
          Get(hpa_mod, k, 0) + Get(circ_mod, k, 0)
            + (IF k \in mapped THEN MappedDelta(MappedTriggers, eva_stimuli, k) ELSE 0)]

\* _run_tick, steps 1 and 2 of the tick: the clamped per-hormone stimuli
EndoStimuliOf(hpa_mod, circ_mod, eva_stimuli) ==
    LET mapped == {h \in DOMAIN stimulus_mapping :
                      \E t \in DOMAIN eva_stimuli : t \in DOMAIN stimulus_mapping[h]}
        keys == DOMAIN hpa_mod \cup DOMAIN circ_mod \cup mapped
    IN [k \in keys |->
          clamp(Get(hpa_mod, k, 0) + Get(circ_mod, k, 0)
                  + (IF k \in mapped THEN MappedDelta(MappedTriggers, eva_stimuli, k) ELSE 0),
                -1000, 1000)]

(* EndocrineGland.get_status and EndocrineController.get_status_report *)

FATIGUE_THRESHOLD_PCT == 150
EXHAUSTED_THRESHOLD_PCT == 10

\* EndocrineGland.get_status (inventory_pct in hundredths of a percent)
GetStatus(h, state) ==
    LET inv_pct == (state.inventory * 1000) \div Max(1, inventory_max(h))
    IN [hormone |-> h,
        inventory_pct |-> (state.inventory * 10000) \div Max(1, inventory_max(h)),
        adaptation |-> state.adaptation,
        drive |-> state.drive,
        last_flux_pg |-> state.last_flux_pg,
        state |-> IF inv_pct <= EXHAUSTED_THRESHOLD_PCT THEN "exhausted"
                  ELSE IF inv_pct <= FATIGUE_THRESHOLD_PCT THEN "fatigue"
                  ELSE "active"]

\* EndocrineController.get_status_report
GetStatusReport(st) == [h \in Catalog |-> GetStatus(h, st[h])]

----------------------------------------------------------------------------
(* FastReflexEngine (logic/reflex/FastReflexEngine.py); surges, intensities *)
(* and the gland status numbers it reads are thousandths                    *)

\* subsystems.reflex: tuning and pathway_mapping
Gain_Factor == 2500
Saturation_Cutoff == 1200
Reflex_Decay_Rate == 900
Inhibition_Threshold == 50
pathways ==
    <<[stimulus_type |-> "acute_threat", target_receptor |-> ADRENALINE, gain_modifier |-> 1000],
      [stimulus_type |-> "stress_signal", target_receptor |-> CORTISOL, gain_modifier |-> 500],
      [stimulus_type |-> "stress_signal", target_receptor |-> ADRENALINE, gain_modifier |-> 1000]>>

\* decay ** dt for a whole number of seconds
RECURSIVE DecayPow(_)
DecayPow(dt) == IF dt <= 0 THEN 1000 ELSE (Reflex_Decay_Rate * DecayPow(dt - 1)) \div 1000

\* calculate_surges, the loop over the pathways from index i on: new_surges
RECURSIVE NewSurges(_, _, _, _)
NewSurges(i, new_surges, stimuli, gland_status) ==
    IF i > Len(pathways) THEN new_surges
    ELSE
      LET path == pathways[i]
          intensity == Get(stimuli, path.stimulus_type, 0)
          status == Get(gland_status, path.target_receptor, <<>>)
          g_inv == Get(status, "G_inventory", 0)
          g_max == Get(status, "G_max", 1000)
          ratio == (g_inv * 1000) \div Max(1, g_max)
          gain == (Gain_Factor * path.gain_modifier) \div 1000
          surge == IF ratio < Inhibition_Threshold THEN 0
                   ELSE (((ratio * intensity) \div 1000) * gain) \div 1000
          capped == Min(surge, Saturation_Cutoff)
      IN IF intensity <= 0 THEN NewSurges(i + 1, new_surges, stimuli, gland_status)
         ELSE NewSurges(i + 1,
                        Put(new_surges, path.target_receptor,
                            Get(new_surges, path.target_receptor, 0) + capped),
                        stimuli, gland_status)

\* FastReflexEngine.calculate_surges in a build that caps each pathway's
\* surge only, not the combined value
CalculateSurgesUncapped(surges, stimuli, gland_status, dt) ==
    LET new_surges == NewSurges(1, <<>>, stimuli, gland_status)
    IN [r_id \in DOMAIN surges \cup DOMAIN new_surges |->
          Get(new_surges, r_id, 0) + (Get(surges, r_id, 0) * DecayPow(dt)) \div 1000]

\* FastReflexEngine.calculate_surges: the combined surges, which are also the
\* new current_surges
CalculateSurges(surges, stimuli, gland_status, dt) ==
    LET new_surges == NewSurges(1, <<>>, stimuli, gland_status)
    IN [r_id \in DOMAIN surges \cup DOMAIN new_surges |->
          Min(Get(new_surges, r_id, 0) + (Get(surges, r_id, 0) * DecayPow(dt)) \div 1000,
              Saturation_Cutoff)]

----------------------------------------------------------------------------
(* ReceptorEngine.step (logic/receptor/ReceptorEngine.py) *)

SystemIds == {r[2] : r \in ReceptorIds}

\* ReceptorEngine.step: signals[s_id][h_id] = isr + surge, and the new units
ReceptorEngineStep(units, blood_concentrations, dt, nerve_surges) ==
    LET out == [r \in ReceptorIds |->
                  CalculateSignal(r, units[r], Get(blood_concentrations, r[1], 0), dt)]
    IN [signals |-> [s_id \in SystemIds |->
                       [h_id \in {h \in DOMAIN receptor_mapping : <<h, s_id>> \in ReceptorIds} |->
                           out[<<h_id, s_id>>].signal + Get(nerve_surges, h_id, 0)]],
        sensitization |-> [r \in ReceptorIds |-> out[r].unit.sensitization],
        occupation |-> [r \in ReceptorIds |-> out[r].unit.occupation_rate],
        receptors |-> [r \in ReceptorIds |-> out[r].unit]]

----------------------------------------------------------------------------
(* AutonomicResponseEngine (logic/autonomic/AutonomicResponseEngine.py) *)

\* subsystems.autonomic: weights and smoothing.alpha
autonomic_weights ==
    ADRENALINE :> [sympathetic |-> 800, parasympathetic |-> 0]
    @@
    CORTISOL :> [sympathetic |-> 200, parasympathetic |-> 500]
autonomic_alpha == 200

\* AutonomicResponseEngine.__init__
InitialAutonomic == [sympathetic |-> 0, parasympathetic |-> 0]

\* sum of the values of a dict
RECURSIVE SumFn(_)
SumFn(f) ==
    IF DOMAIN f = {} THEN 0
    ELSE LET k == CHOOSE x \in DOMAIN f : TRUE
         IN f[k] + SumFn([x \in DOMAIN f \ {k} |-> f[x]])

\* the (system, hormone_id) pairs of a receptor_signals dict
SignalPairs(receptor_signals) ==
    UNION {{<<s, h>> : h \in DOMAIN receptor_signals[s]} : s \in DOMAIN receptor_signals}

\* weights.get(h_id, {}).get(branch, 0.0)
WeightOf(weights, h_id, branch) ==
    IF h_id \in DOMAIN weights THEN Get(weights[h_id], branch, 0) ELSE 0

Weight(h_id, branch) == WeightOf(autonomic_weights, h_id, branch)

\* the weighted sum of one branch, before the clamp
BranchSumOf(weights, receptor_signals, reflex_surges, branch) ==
    SumFn([p \in SignalPairs(receptor_signals) |->
              Quot(receptor_signals[p[1]][p[2]] * WeightOf(weights, p[2], branch), 1000)])
    + SumFn([h \in DOMAIN reflex_surges |->
                Quot(reflex_surges[h] * WeightOf(weights, h, branch), 1000)])

BranchSum(receptor_signals, reflex_surges, branch) ==
    BranchSumOf(autonomic_weights, receptor_signals, reflex_surges, branch)

\* AutonomicResponseEngine.step without the two clamps of "Normalize"
AutonomicStepUnclamped(alpha, weights, state, receptor_signals, reflex_surges, dt) ==
    LET symp == BranchSumOf(weights, receptor_signals, reflex_surges, "sympathetic")
        para == BranchSumOf(weights, receptor_signals, reflex_surges, "parasympathetic")
    IN [sympathetic |->
            Quot(alpha * symp, 1000) + Quot((1000 - alpha) * state.sympathetic, 1000),
        parasympathetic |->
            Quot(alpha * para, 1000) + Quot((1000 - alpha) * state.parasympathetic, 1000)]

\* AutonomicResponseEngine.step with the smoothing alpha and the weights its
\* config holds at the call: the new state, which is also the result
AutonomicStepCfg(alpha, weights, state, receptor_signals, reflex_surges, dt) ==
    LET symp == clamp(BranchSumOf(weights, receptor_signals, reflex_surges, "sympathetic"),
                      0, 1000)
        para == clamp(BranchSumOf(weights, receptor_signals, reflex_surges, "parasympathetic"),
                      0, 1000)
    IN [sympathetic |->
            Quot(alpha * symp, 1000) + Quot((1000 - alpha) * state.sympathetic, 1000),
        parasympathetic |->
            Quot(alpha * para, 1000) + Quot((1000 - alpha) * state.parasympathetic, 1000)]

\* AutonomicResponseEngine.step of the engine PhysioCore builds
AutonomicStep(state, receptor_signals, reflex_surges, dt) ==
    AutonomicStepCfg(autonomic_alpha, autonomic_weights, state, receptor_signals,
                     reflex_surges, dt)

----------------------------------------------------------------------------
(* VitalsEngine (logic/vitals/VitalsEngine.py): bpm, rpm, base_hr and      *)
(* base_rr in hundredths of a beat or breath per minute, breath_phase in   *)
(* 1/6000 of a breathing cycle, vagus_tone in thousandths                  *)

base_hr == 6500
base_rr == 1200
vitals_alpha == 50

\* VitalsEngine.__init__
InitialVitals == [bpm |-> 7000, rpm |-> 1400, breath_phase |-> 0, vagus_tone |-> 500]

\* math.sin of a phase, in thousandths (Bhaskara's rational approximation
\* on whole degrees)
Sin(phase) ==
    LET d == (phase * 3) \div 50
        half(x) == (4000 * x * (180 - x)) \div (40500 - x * (180 - x))
    IN IF d <= 180 THEN half(d) ELSE 0 - half(d - 180)

\* round(x, 1) on a number in hundredths
Round1(x) == ((x + 5) \div 10) * 10

\* VitalsEngine.step in a build that stores raw_vagus unclamped
VitalsStepUnclamped(v, ans_state, adrenaline_level, dt) ==
    LET symp == Get(ans_state, "sympathetic", 500)
        para == Get(ans_state, "parasympathetic", 500)
        adr_boost == Max(0, Quot(adrenaline_level, 15))
        target_bpm == base_hr + symp * 8 - para * 2 + adr_boost * 4
        target_rpm == base_rr + symp * 2 - Quot(para * 4, 10) + adr_boost
        bpm == Quot(vitals_alpha * target_bpm, 1000) + Quot((1000 - vitals_alpha) * v.bpm, 1000)
        rpm == Quot(vitals_alpha * target_rpm, 1000) + Quot((1000 - vitals_alpha) * v.rpm, 1000)
        breath_phase == (v.breath_phase + rpm * dt) % 6000
        rsa_amplitude == (1000 - symp) \div 2 + 200
        rsa_offset == Quot(Sin(breath_phase) * rsa_amplitude, 1000)
        raw_vagus == Quot((1000 - rpm \div 4) * (1000 + para \div 2), 1000)
        vagus_tone == raw_vagus
    IN [vitals |-> [bpm |-> bpm, rpm |-> rpm, breath_phase |-> breath_phase,
                    vagus_tone |-> vagus_tone],
        out |-> [bpm |-> Round1(bpm + rsa_offset), rpm |-> Round1(rpm),
                 vagus_tone |-> vagus_tone, breath_phase |-> breath_phase,
                 hrv_index |-> rsa_amplitude \div 10]]

\* VitalsEngine.step: [vitals (new state), out (the returned dict)]
VitalsStep(v, ans_state, adrenaline_level, dt) ==
    LET symp == Get(ans_state, "sympathetic", 500)
        para == Get(ans_state, "parasympathetic", 500)
        adr_boost == Max(0, Quot(adrenaline_level, 15))
        target_bpm == base_hr + symp * 8 - para * 2 + adr_boost * 4
        target_rpm == base_rr + symp * 2 - Quot(para * 4, 10) + adr_boost
        bpm == Quot(vitals_alpha * target_bpm, 1000) + Quot((1000 - vitals_alpha) * v.bpm, 1000)
        rpm == Quot(vitals_alpha * target_rpm, 1000) + Quot((1000 - vitals_alpha) * v.rpm, 1000)
        breath_phase == (v.breath_phase + rpm * dt) % 6000
        rsa_amplitude == (1000 - symp) \div 2 + 200
        rsa_offset == Quot(Sin(breath_phase) * rsa_amplitude, 1000)
        raw_vagus == Quot((1000 - rpm \div 4) * (1000 + para \div 2), 1000)
        vagus_tone == Max(0, Min(1000, raw_vagus))
    IN [vitals |-> [bpm |-> bpm, rpm |-> rpm, breath_phase |-> breath_phase,
                    vagus_tone |-> vagus_tone],
        out |-> [bpm |-> Round1(bpm + rsa_offset), rpm |-> Round1(rpm),
                 vagus_tone |-> vagus_tone, breath_phase |-> breath_phase,
                 hrv_index |-> rsa_amplitude \div 10]]

----------------------------------------------------------------------------
(* PhysioCore._run_tick (physio_core.py).  An engine is the record of the  *)
(* subsystems' states: [blood, states, hpa, surges, receptors, autonomic,  *)
(* vitals].                                                                *)

\* the loops "for h_id, mass_pg in ...: self.blood.apply_hormone_influx":
\* one influx per key of `masses` (each touches its own hormone only)
InfluxAll(b, masses, now) ==
    [b EXCEPT
       !.plasma = [h \in DOMAIN b.plasma \cup DOMAIN masses |->
                     IF h \in DOMAIN masses
                     THEN ApplyHormoneInflux(b, h, masses[h], now).plasma[h]
                     ELSE b.plasma[h]],
       !.last_decay_ts = [h \in DOMAIN b.last_decay_ts \cup DOMAIN masses |->
                     IF h \in DOMAIN masses
                     THEN ApplyHormoneInflux(b, h, masses[h], now).last_decay_ts[h]
                     ELSE b.last_decay_ts[h]]]

\* _run_tick, "Baseline Clamp": a level below baseline_pg_ml * dist_vol is
\* set to baseline_pg_ml * dist_vol
BaselineClamp(levels) ==
    LET baseline_pg(h) == baseline_pg_ml(h) * dist_volume_ml
        raised == {h \in Catalog : Get(levels, h, 0) < baseline_pg(h)}
    IN [h \in DOMAIN levels \cup raised |->
          IF h \in raised THEN baseline_pg(h) ELSE levels[h]]

\* the one element of a singleton set
Only(S) == CHOOSE x \in S : TRUE

\* PhysioCore._run_tick, statement by statement.  Each operator below takes
\* the record t of the tick's local variables so far and adds the next one.

\* plasma_snapshot = self.blood.get_concentrations()
TickSnapshot(e, now) == [blood |-> GetConcentrations(e.blood, now)]

\* hpa_mod = self.hpa.step(eva_stimuli, plasma_snapshot, dt)
TickHpa(e, eva_stimuli, dt, t) ==
    ("hpa_out" :> HpaStep(e.hpa, eva_stimuli, t.blood.plasma, dt)) @@ t

\* circ_mod, endo_stimuli, the stimulus mappings and the clamp
TickStimuliOf(eva_stimuli, zeitgebers, hour, t) ==
    ("endo_stimuli" :> EndoStimuliOf(t.hpa_out.out, CircadianStep(zeitgebers, hour),
                                     eva_stimuli)) @@ t

\* vagus_inhibition = self.vitals.vagus_tone; endo_out = self.endocrine.step(...)
TickEndocrine(e, dt, noise, t) ==
    ("inhibition" :> e.vitals.vagus_tone
     @@ "endo_out" :> EndocrineStep(e.states, t.endo_stimuli, dt, e.vitals.vagus_tone, noise))
    @@ t

\* for h_id, mass_pg in released_pg: self.blood.apply_hormone_influx(h_id, mass_pg)
TickRelease(now, t) ==
    [t EXCEPT !.blood = InfluxAll(t.blood, t.endo_out.released_pg, now)]

\* "Basal Secretion": apply_hormone_influx(h_id, basal_rate * dt) per gland
TickBasal(dt, now, t) ==
    [t EXCEPT !.blood = InfluxAll(t.blood, [h \in Catalog |-> gland_basal_rates[h] * dt], now)]

\* blood_out = self.blood.step(dt, flow_factor=flow_modifier)
TickBloodStep(e, dt, now, t) ==
    [t EXCEPT !.blood = BloodStep(t.blood, dt, clamp(e.vitals.bpm \div 7, 500, 4000), now)]

\* "Baseline Clamp", on blood_levels and on self.blood.plasma
TickBaselineClamp(t) ==
    ("post_decay" :> t.blood.plasma @@ "blood_levels" :> BaselineClamp(t.blood.plasma))
    @@ [t EXCEPT !.blood = [@ EXCEPT !.plasma = BaselineClamp(t.blood.plasma)]]

\* reflex_surges = self.reflex.calculate_surges(eva_stimuli, status report, dt)
TickReflex(e, eva_stimuli, dt, t) ==
    ("reflex_surges" :> CalculateSurges(e.surges, eva_stimuli,
                                        GetStatusReport(t.endo_out.gland_state), dt)) @@ t

\* receptor_out = self.receptor.step(blood_levels, dt, reflex_surges)
TickReceptor(e, dt, t) ==
    ("receptor_out" :> ReceptorEngineStep(e.receptors, t.blood_levels, dt, t.reflex_surges))
    @@ t

\* ans_state = self.autonomic.step(receptor_signals, reflex_surges, dt)
TickAutonomic(e, dt, t) ==
    ("ans_state" :> AutonomicStep(e.autonomic, t.receptor_out.signals, t.reflex_surges, dt))
    @@ t

\* vitals_state = self.vitals.step(ans_state, adr, dt)
TickVitals(e, dt, t) ==
    ("vitals_out" :> VitalsStep(e.vitals, t.ans_state, Get(t.blood_levels, ADRENALINE, 0), dt))
    @@ t

\* the engine after the tick, the returned dict, and (for the history) the
\* stimuli and inhibition handed to the glands and the plasma BloodEngine.step
\* returned, before the baseline clamp
TickOutput(t) ==
    [engine |-> [blood |-> t.blood,
                 states |-> t.endo_out.gland_state,
                 hpa |-> t.hpa_out.hpa,
                 surges |-> t.reflex_surges,
                 receptors |-> t.receptor_out.receptors,
                 autonomic |-> t.ans_state,
                 vitals |-> t.vitals_out.vitals],
     result |-> [autonomic |-> t.ans_state, blood |-> t.blood_levels,
                 signals |-> t.receptor_out.signals, vitals |-> t.vitals_out.out],
     endo_stimuli |-> t.endo_stimuli,
     inhibition |-> t.inhibition,
     post_decay |-> t.post_decay]

\* PhysioCore._run_tick in a build that updates the vitals before the glands
\* step (sections 5 to 8 moved before section 2)
RunTickVitalsFirst(e, eva_stimuli, zeitgebers, dt, now, hour, noise) ==
    Only(
    {TickOutput(n) : n \in
    {TickBaselineClamp(m) : m \in
    {TickBloodStep(e, dt, now, l) : l \in
    {TickBasal(dt, now, k) : k \in
    {TickRelease(now, j) : j \in
    {("inhibition" :> i.vitals_out.vitals.vagus_tone
      @@ "endo_out" :> EndocrineStep(e.states, i.endo_stimuli, dt,
                                     i.vitals_out.vitals.vagus_tone, noise)) @@ i : i \in
    {TickVitals(e, dt, h) : h \in
    {TickAutonomic(e, dt, g) : g \in
    {TickReceptor(e, dt, f) : f \in
    {("reflex_surges" :> CalculateSurges(e.surges, eva_stimuli,
                                         GetStatusReport(e.states), dt)
      @@ "blood_levels" :> d.blood.plasma) @@ d : d \in
    {TickStimuliOf(eva_stimuli, zeitgebers, hour, c) : c \in
    {TickHpa(e, eva_stimuli, dt, b) : b \in
    {TickSnapshot(e, now)}}}}}}}}}}}}})

\* PhysioCore._run_tick in a build that runs the circulatory decay step
\* before it injects the released and the basal mass
RunTickDecayFirst(e, eva_stimuli, zeitgebers, dt, now, hour, noise) ==
    Only(
    {TickOutput(n) : n \in
    {TickVitals(e, dt, m) : m \in
    {TickAutonomic(e, dt, l) : l \in
    {TickReceptor(e, dt, k) : k \in
    {TickReflex(e, eva_stimuli, dt, j) : j \in
    {TickBaselineClamp(i) : i \in
    {TickBasal(dt, now, h) : h \in
    {TickRelease(now, g) : g \in
    {TickBloodStep(e, dt, now, f) : f \in
    {TickEndocrine(e, dt, noise, d) : d \in
    {TickStimuliOf(eva_stimuli, zeitgebers, hour, c) : c \in
    {TickHpa(e, eva_stimuli, dt, b) : b \in
    {TickSnapshot(e, now)}}}}}}}}}}}}})

\* PhysioCore._run_tick: the statements above in the order of the source
RunTick(e, eva_stimuli, zeitgebers, dt, now, hour, noise) ==
    Only(
    {TickOutput(n) : n \in
    {TickVitals(e, dt, m) : m \in
    {TickAutonomic(e, dt, l) : l \in
    {TickReceptor(e, dt, k) : k \in
    {TickReflex(e, eva_stimuli, dt, j) : j \in
    {TickBaselineClamp(i) : i \in
    {TickBloodStep(e, dt, now, h) : h \in
    {TickBasal(dt, now, g) : g \in
    {TickRelease(now, f) : f \in
    {TickEndocrine(e, dt, noise, d) : d \in
    {TickStimuliOf(eva_stimuli, zeitgebers, hour, c) : c \in
    {TickHpa(e, eva_stimuli, dt, b) : b \in
    {TickSnapshot(e, now)}}}}}}}}}}}}})

----------------------------------------------------------------------------
(* Inputs *)
DtValues == {0, 1, 2}
FlowFactors == {500, 4000}
\* (hormone_id, mass_pg) of a direct injection
InfluxInputs ==
    {<<ADRENALINE, -400>>, <<ADRENALINE, 300>>, <<CORTISOL, 4000>>, <<"ESC_X99_UNKNOWN", 300>>}
\* (hormone_id, mass_pg, delay_sec) of a delayed injection
DelayedInputs ==
    {<<ADRENALINE, 300, 0>>, <<ADRENALINE, 300, 1>>, <<CORTISOL, 100, 2>>,
     <<"ESC_X99_UNKNOWN", 300, 1>>}

----------------------------------------------------------------------------
(* The state after construction (PhysioCore.__init__ at time.time() = 0) *)

Init ==
    /\ clock = 0
    /\ plasma = InitialPlasma
    /\ last_decay_ts = [h \in Catalog |-> 0]
    /\ influx_queue = <<>>
    /\ sim_time = 0
    /\ scheduled = <<>>
    /\ applied = <<>>
    /\ last_op = [name |-> "init", dt |-> 0, before |-> InitialPlasma, injected |-> 0]
    /\ n_calls = 0
    /\ states = [h \in Catalog |-> InitialGlandState(h)]
    /\ receptors = [r \in ReceptorIds |-> InitialReceptor]
    /\ hpa_state = [crh |-> 0, acth |-> 0]
    /\ current_surges = <<>>
    /\ autonomic_state = InitialAutonomic
    /\ vitals = InitialVitals
    /\ last_tick = [n |-> 0, dt |-> 0, noise |-> [h \in Catalog |-> 0], endo_stimuli |-> <<>>,
                    inhibition |-> 0, post_decay |-> InitialPlasma, result |-> <<>>,
                    quiet_dt |-> 0, quiet_time |-> 0]

----------------------------------------------------------------------------
(* State machine of the BloodEngine *)

\* wall-clock time passes between two calls
TimePasses ==
    /\ clock < MaxClock
    /\ clock' = clock + 1
    /\ UNCHANGED <<bloodVars, bloodHistory, last_op, n_calls, endocrineVars, receptorVars, tickVars>>

CallApplyHormoneInflux ==
    /\ n_calls < MaxCalls
    /\ \E in \in InfluxInputs :
          /\ SetBlood(ApplyHormoneInflux(Blood, in[1], in[2], clock))
          /\ last_op' = [name |-> "apply_hormone_influx", dt |-> 0, before |-> plasma,
                         injected |-> 1, h |-> in[1], mass_pg |-> in[2], after |-> plasma']
    /\ n_calls' = n_calls + 1
    /\ UNCHANGED <<clock, bloodHistory, endocrineVars, receptorVars, tickVars>>

CallApplyDelayedInflux ==
    /\ n_calls < MaxCalls
    /\ \E in \in DelayedInputs :
          /\ SetBlood(ApplyDelayedInflux(Blood, in[1], in[2], in[3], clock, Len(scheduled) + 1))
          /\ scheduled' = Append(scheduled,
                 [hormone_id |-> in[1], mass_pg |-> in[2], delay_sec |-> in[3],
                  sim_at |-> sim_time, stepped |-> FALSE])
    /\ last_op' = [name |-> "apply_delayed_influx", dt |-> 0, before |-> plasma, injected |-> 0]
    /\ n_calls' = n_calls + 1
    /\ UNCHANGED <<clock, sim_time, endocrineVars, receptorVars, tickVars>>

CallBloodStep ==
    /\ n_calls < MaxCalls
    /\ \E dt \in DtValues, ff \in FlowFactors :
          /\ SetBlood(BloodStep(Blood, dt, ff, clock))
          /\ sim_time' = sim_time + dt
          /\ last_op' = [name |-> "step", dt |-> dt, before |-> plasma,
                         injected |-> Len(influx_queue) - Len(influx_queue')]
    /\ scheduled' = [i \in DOMAIN scheduled |-> [scheduled[i] EXCEPT !.stepped = TRUE]]
    /\ n_calls' = n_calls + 1
    /\ UNCHANGED <<clock, endocrineVars, receptorVars, tickVars>>

CallGetConcentrations ==
    /\ SetBlood(GetConcentrations(Blood, clock))
    /\ UNCHANGED <<clock, bloodHistory, last_op, n_calls, endocrineVars, receptorVars, tickVars>>

NextBlood ==
    \/ TimePasses
    \/ CallApplyHormoneInflux
    \/ CallApplyDelayedInflux
    \/ CallBloodStep
    \/ CallGetConcentrations

SpecBlood == Init /\ [][NextBlood]_vars

----------------------------------------------------------------------------
(* State machine of the EndocrineController *)

\* the stimuli dicts handed to EndocrineController.step
EndoStimuli ==
    { <<>>,
      ADRENALINE :> 1000 @@ CORTISOL :> -1000,
      ADRENALINE :> 800 @@ "COR" :> 1000,
      ADRENALINE :> 50 @@ CORTISOL :> 1000 }
EndoDtValues == {0, 1, 10}
\* (inhibition, basal-noise draw of every gland)
InhibitionNoise == {<<-500, -100>>, <<500, 100>>, <<1500, 0>>}

CallEndocrineStep ==
    /\ n_calls < MaxEndoSteps
    /\ \E stimuli \in EndoStimuli, dt \in EndoDtValues, in \in InhibitionNoise :
          /\ states' = EndocrineStep(states, stimuli, dt, in[1],
                                     [h \in Catalog |-> in[2]]).gland_state
          /\ last_op' = [name |-> "endocrine_step", dt |-> dt, before |-> plasma, injected |-> 0]
    /\ n_calls' = n_calls + 1
    /\ UNCHANGED <<clock, bloodVars, bloodHistory, receptorVars, tickVars>>

NextEndocrine == CallEndocrineStep

SpecEndocrine == Init /\ [][NextEndocrine]_vars

----------------------------------------------------------------------------
(* State machine of a ReceptorUnit *)

ReceptorConcentrations == {0, 20, 50, 250, 800, 2000}
ReceptorDtValues == {0, 1, 3600, 72000}

CallCalculateSignal ==
    /\ n_calls < MaxReceptorCalls
    /\ \E r \in ReceptorIds, c \in ReceptorConcentrations, dt \in ReceptorDtValues :
       \E out \in {CalculateSignal(r, receptors[r], c, dt)} :
          /\ receptors' = [receptors EXCEPT ![r] = out.unit]
          /\ last_op' = [name |-> "calculate_signal", dt |-> dt, before |-> plasma,
                         injected |-> 0, r |-> r, concentration |-> c,
                         prev |-> receptors[r], result |-> out.signal]
    /\ n_calls' = n_calls + 1
    /\ UNCHANGED <<clock, bloodVars, bloodHistory, endocrineVars, tickVars>>

NextReceptor == CallCalculateSignal

SpecReceptor == Init /\ [][NextReceptor]_vars

----------------------------------------------------------------------------
(* State machine of the PhysioCore: the wall clock and the ticks *)

\* eva_stimuli dicts handed to PhysioCore.step
TickStimuli ==
    { <<>>,
      "acute_threat" :> 1000,
      "stress_signal" :> 1000 @@ "acute_threat" :> 400 }
TickDtValues == {0, 1, 10}
\* what a tick takes from outside the call: the zeitgebers dict, the hour of
\* datetime.now() and the basal-noise draw of every gland
TickEnvs ==
    { [zeitgebers |-> <<>>, hour |-> 3, noise |-> [h \in Catalog |-> -100]],
      [zeitgebers |-> "daylight" :> 1000, hour |-> 7,
       noise |-> (ADRENALINE :> 100 @@ CORTISOL :> 0)] }

\* the engine the tick runs on
Engine ==
    [blood |-> Blood, states |-> states, hpa |-> hpa_state, surges |-> current_surges,
     receptors |-> receptors, autonomic |-> autonomic_state, vitals |-> vitals]

SetEngine(e) ==
    /\ SetBlood(e.blood)
    /\ states' = e.states
    /\ hpa_state' = e.hpa
    /\ current_surges' = e.surges
    /\ receptors' = e.receptors
    /\ autonomic_state' = e.autonomic
    /\ vitals' = e.vitals

\* history: a tick is quiet when no catalog hormone got a stimulus; quiet_time
\* is the simulated time of the current run of quiet ticks of one dt
TickLogAfter(log, t, dt, noise) ==
    LET quiet == dt > 0 /\ \A h \in Catalog : Get(t.endo_stimuli, h, 0) = 0
    IN [n |-> log.n + 1, dt |-> dt, noise |-> noise,
        endo_stimuli |-> t.endo_stimuli, inhibition |-> t.inhibition,
        post_decay |-> t.post_decay, result |-> t.result,
        quiet_dt |-> IF quiet THEN dt ELSE 0,
        quiet_time |-> IF ~quiet THEN 0
                       ELSE IF log.quiet_dt = dt THEN log.quiet_time + dt
                       ELSE dt]

TickLog(t, dt, noise) == TickLogAfter(last_tick, t, dt, noise)

\* PhysioCore.step(eva_stimuli, zeitgebers, dt) with a dict of stimuli
CallStep ==
    /\ last_tick.n < MaxTicks
    /\ \E eva_stimuli \in TickStimuli, dt \in TickDtValues, env \in TickEnvs :
       \E t \in {RunTick(Engine, eva_stimuli, env.zeitgebers, dt, clock, env.hour, env.noise)} :
          /\ SetEngine(t.engine)
          /\ last_tick' = TickLog(t, dt, env.noise)
          /\ sim_time' = sim_time + dt
          /\ last_op' = [name |-> "tick", dt |-> dt, before |-> plasma, injected |-> 0,
                         eva_stimuli |-> eva_stimuli, env |-> env]
    /\ scheduled' = [i \in DOMAIN scheduled |-> [scheduled[i] EXCEPT !.stepped = TRUE]]
    /\ UNCHANGED <<clock, n_calls>>

\* lists of stimulus chunks handed to PhysioCore.step
TickChunkLists ==
    { <<>>,
      << "acute_threat" :> 1000, <<>> >>,
      << "acute_threat" :> -1000 >>,
      << "stress_signal" :> 1000 @@ "acute_threat" :> 400, "acute_threat" :> 1000 >> }

\* PhysioCore.step, the loop "for chunk in eva_stimuli" in a build that
\* shares dt among the chunks
RECURSIVE RunChunksSharedDt(_, _, _, _, _, _, _)
RunChunksSharedDt(acc, chunks, zeitgebers, dt, now, hour, noise) ==
    IF chunks = <<>> THEN acc
    ELSE Only({RunChunksSharedDt([engine |-> t.engine, result |-> t.result,
                                  log |-> TickLogAfter(acc.log, t, dt, noise)],
                                 Tail(chunks), zeitgebers, dt, now, hour, noise) :
                  t \in {RunTick(acc.engine, Head(chunks), zeitgebers, dt \div 2, now,
                                 hour, noise)}})

\* PhysioCore.step in a build that runs one tick without stimuli for an
\* empty list
RECURSIVE RunChunksTickOnEmpty(_, _, _, _, _, _, _)
RunChunksTickOnEmpty(acc, chunks, zeitgebers, dt, now, hour, noise) ==
    LET todo == IF chunks = <<>> /\ acc.result = <<>> THEN << <<>> >> ELSE chunks
    IN IF todo = <<>> THEN acc
       ELSE Only({RunChunksTickOnEmpty([engine |-> t.engine, result |-> t.result,
                                        log |-> TickLogAfter(acc.log, t, dt, noise)],
                                       Tail(todo), zeitgebers, dt, now, hour, noise) :
                     t \in {RunTick(acc.engine, Head(todo), zeitgebers, dt, now, hour, noise)}})

\* PhysioCore.step, the loop "for chunk in eva_stimuli": acc is the engine,
\* final_state and the history so far
RECURSIVE RunChunks(_, _, _, _, _, _, _)
RunChunks(acc, chunks, zeitgebers, dt, now, hour, noise) ==
    IF chunks = <<>> THEN acc
    ELSE Only({RunChunks([engine |-> t.engine, result |-> t.result,
                          log |-> TickLogAfter(acc.log, t, dt, noise)],
                         Tail(chunks), zeitgebers, dt, now, hour, noise) :
                  t \in {RunTick(acc.engine, Head(chunks), zeitgebers, dt, now, hour, noise)}})

\* PhysioCore.step(eva_stimuli, zeitgebers, dt) with a list of chunks
CallStepList ==
    \E chunks \in TickChunkLists, dt \in TickDtValues, env \in TickEnvs :
       /\ last_tick.n + Len(chunks) <= MaxTicks
       /\ \E out \in {RunChunks([engine |-> Engine, result |-> <<>>, log |-> last_tick],
                                 chunks, env.zeitgebers, dt, clock, env.hour, env.noise)} :
             /\ SetEngine(out.engine)
             /\ last_tick' = out.log
             /\ sim_time' = sim_time + dt * Len(chunks)
             /\ last_op' = [name |-> "step_list", dt |-> dt, before |-> plasma,
                            injected |-> 0, chunks |-> chunks, env |-> env,
                            result |-> out.result]
       /\ scheduled' = [i \in DOMAIN scheduled |->
                           [scheduled[i] EXCEPT !.stepped = @ \/ chunks # <<>>]]
       /\ UNCHANGED <<clock, n_calls>>

Next ==
    \/ TimePasses
    \/ CallStep

Spec == Init /\ [][Next]_vars

\* round(x, 2) on a number in thousandths
Round2(x) == ((x + 5) \div 10) * 10

\* PhysioCore.get_snapshot in a build that reads the blood through
\* get_concentrations: [engine, result]
GetSnapshotDecayed(e, now) ==
    LET b == GetConcentrations(e.blood, now)
    IN [engine |-> [e EXCEPT !.blood = b],
        result |-> [autonomic |-> e.autonomic, blood |-> b.plasma,
                    vitals |-> [bpm |-> Round1(e.vitals.bpm), rpm |-> Round1(e.vitals.rpm),
                                vagus_tone |-> Round2(e.vitals.vagus_tone)]]]

\* PhysioCore.get_snapshot: [engine (after the call), result (the returned dict)]
GetSnapshot(e, now) ==
    [engine |-> e,
     result |-> [autonomic |-> e.autonomic, blood |-> e.blood.plasma,
                 vitals |-> [bpm |-> Round1(e.vitals.bpm), rpm |-> Round1(e.vitals.rpm),
                             vagus_tone |-> Round2(e.vitals.vagus_tone)]]]

\* PhysioCore.get_snapshot() / PhysioCore.get_state()
CallGetSnapshot ==
    \E out \in {GetSnapshot(Engine, clock)} :
       /\ SetEngine(out.engine)
       /\ last_op' = [name |-> "get_snapshot", dt |-> 0, before |-> plasma,
                      injected |-> 0, result |-> out.result]
       /\ UNCHANGED <<clock, n_calls, sim_time, scheduled, last_tick>>

\* the same engine driven by list calls and observed by snapshots
NextStepList ==
    \/ TimePasses
    \/ CallStepList
    \/ CallGetSnapshot

SpecStepList == Init /\ [][NextStepList]_vars

\* history: the snapshots exported so far, by subsystem, kept in last_op by
\* the calls of the subsystem state machines
Saved == IF "saved" \in DOMAIN last_op THEN last_op.saved ELSE <<>>

----------------------------------------------------------------------------
(* State machine of the FastReflexEngine *)

MaxReflexCalls == 3

\* stimuli dicts handed to calculate_surges (100000 stands for 100.0)
ReflexStimuli ==
    { <<>>,
      "acute_threat" :> 100000,
      "acute_threat" :> 900 @@ "stress_signal" :> 1000,
      "acute_threat" :> -500 @@ "stress_signal" :> 20 }
\* gland_status dicts: one that holds the keys the engine reads, and the
\* report EndocrineController.get_status_report gives
ReflexStatuses ==
    { [h \in Catalog |-> [G_inventory |-> 900, G_max |-> 1000]],
      ADRENALINE :> [G_inventory |-> 20, G_max |-> 1000],
      GetStatusReport([h \in Catalog |-> InitialGlandState(h)]) }
ReflexDtValues == {0, 1, 2}

CallCalculateSurges ==
    /\ n_calls < MaxReflexCalls
    /\ \E stimuli \in ReflexStimuli, status \in ReflexStatuses, dt \in ReflexDtValues :
       \E combined \in {CalculateSurges(current_surges, stimuli, status, dt)} :
          /\ current_surges' = combined
          /\ last_op' = [name |-> "calculate_surges", dt |-> dt, before |-> plasma,
                         injected |-> 0, stimuli |-> stimuli, status |-> status,
                         prev |-> current_surges, result |-> combined,
                         saved |-> Saved]
    /\ n_calls' = n_calls + 1
    /\ UNCHANGED <<clock, bloodVars, bloodHistory, endocrineVars, receptorVars,
                   hpa_state, autonomic_state, vitals, last_tick>>

NextReflex == CallCalculateSurges

SpecReflex == Init /\ [][NextReflex]_vars

----------------------------------------------------------------------------
(* State machine of one EndocrineGland: its two methods called on the      *)
(* stored state of the gland                                               *)

MaxGlandCalls == 3

\* stimulus_intensity of a trigger_nerve_surge call
SurgeStimuli == {0, 500, 799, 800, 900, 1000, 3000}
\* (stimulus, dt, inhibition, noise draw) of a process_step call
ProcessInputs ==
    { <<1000, 10, 900, 0>>, <<0, 1, 500, 100>>, <<1000, 10, -500, -100>>,
      <<1000, 1, 1500, 0>>, <<500, 10, 0, 100>>, <<0, 10, 100000, 0>> }

CallTriggerNerveSurge ==
    /\ n_calls < MaxGlandCalls
    /\ \E h \in Catalog, stimulus \in SurgeStimuli :
       \E out \in {TriggerNerveSurge(h, states[h], stimulus)} :
          /\ states' = [states EXCEPT ![h] = out.state]
          /\ last_op' = [name |-> "trigger_nerve_surge", dt |-> 0, before |-> plasma,
                         injected |-> 0, h |-> h, stimulus |-> stimulus,
                         prev |-> states[h], result |-> out.released,
                         saved |-> Saved]
    /\ n_calls' = n_calls + 1
    /\ UNCHANGED <<clock, bloodVars, bloodHistory, receptorVars, tickVars>>

CallProcessStep ==
    /\ n_calls < MaxGlandCalls
    /\ \E h \in Catalog, in \in ProcessInputs :
       \E out \in {ProcessStep(h, states[h], in[1], in[2], in[3], in[4])} :
          /\ states' = [states EXCEPT ![h] = out.state]
          /\ last_op' = [name |-> "process_step", dt |-> in[2], before |-> plasma,
                         injected |-> 0, h |-> h, stimulus |-> in[1],
                         inhibition |-> in[3], noise |-> in[4],
                         prev |-> states[h], result |-> out.released,
                         saved |-> Saved]
    /\ n_calls' = n_calls + 1
    /\ UNCHANGED <<clock, bloodVars, bloodHistory, receptorVars, tickVars>>

NextGland ==
    \/ CallTriggerNerveSurge
    \/ CallProcessStep

SpecGland == Init /\ [][NextGland]_vars

----------------------------------------------------------------------------
(* State machine of the AutonomicResponseEngine alone.  step reads the      *)
(* smoothing alpha and the weights from its config dict at every call       *)

MaxAutonomicCalls == 3

\* smoothing.alpha, within [0, 1]
AutonomicAlphas == {0, 200, 1000}

\* weights tables: the configured one, one with negative and large weights,
\* and an empty one
AutonomicWeights ==
    { autonomic_weights,
      ADRENALINE :> [sympathetic |-> -2000, parasympathetic |-> 5000]
        @@ CORTISOL :> [sympathetic |-> 3000],
      <<>> }

\* receptor_signals dicts
AutonomicSignals ==
    { <<>>,
      "cardiac" :> (ADRENALINE :> 700),
      "cardiac" :> (ADRENALINE :> 100000) @@ "metabolic" :> (CORTISOL :> -100000),
      "cardiac" :> (ADRENALINE :> 300 @@ "ESC_X99_UNKNOWN" :> 900) }

\* reflex_surges dicts
AutonomicSurges ==
    { <<>>, ADRENALINE :> 1200, ADRENALINE :> -5000 @@ CORTISOL :> 400 }

CallAutonomicStep ==
    /\ n_calls < MaxAutonomicCalls
    /\ \E alpha \in AutonomicAlphas, weights \in AutonomicWeights,
          receptor_signals \in AutonomicSignals, reflex_surges \in AutonomicSurges,
          dt \in {0, 1} :
       \E out \in {AutonomicStepCfg(alpha, weights, autonomic_state, receptor_signals,
                                     reflex_surges, dt)} :
          /\ autonomic_state' = out
          /\ last_op' = [name |-> "autonomic_step", dt |-> dt, before |-> plasma,
                         injected |-> 0, alpha |-> alpha,
                         raw |-> [b \in {"sympathetic", "parasympathetic"} |->
                                    BranchSumOf(weights, receptor_signals, reflex_surges, b)],
                         prev |-> autonomic_state, result |-> out]
    /\ n_calls' = n_calls + 1
    /\ UNCHANGED <<clock, bloodVars, bloodHistory, endocrineVars, receptorVars,
                   hpa_state, current_surges, vitals, last_tick>>

NextAutonomic == CallAutonomicStep

SpecAutonomic == Init /\ [][NextAutonomic]_vars

----------------------------------------------------------------------------
(* State machine of the VitalsEngine alone *)

MaxVitalsCalls == 3

\* ans_state dicts: the values PhysioCore hands over lie in [0, 1]; a direct
\* caller may hand over any, or none
VitalsAnsStates ==
    { InitialAutonomic,
      [sympathetic |-> 1000, parasympathetic |-> 1000],
      <<>>,
      [sympathetic |-> -50000, parasympathetic |-> 5000],
      [sympathetic |-> 50000, parasympathetic |-> 0] }

\* adrenaline_level in hundredths of a pg/mL
VitalsAdrenaline == {0, 80000}

VitalsDtValues == {-1, 1, 7}

CallVitalsStep ==
    /\ n_calls < MaxVitalsCalls
    /\ \E ans_state \in VitalsAnsStates, adrenaline_level \in VitalsAdrenaline,
          dt \in VitalsDtValues :
       \E out \in {VitalsStep(vitals, ans_state, adrenaline_level, dt)} :
          /\ vitals' = out.vitals
          /\ last_op' = [name |-> "vitals_step", dt |-> dt, before |-> plasma,
                         injected |-> 0, ans_state |-> ans_state,
                         adrenaline_level |-> adrenaline_level,
                         prev |-> vitals, result |-> out.out]
    /\ n_calls' = n_calls + 1
    /\ UNCHANGED <<clock, bloodVars, bloodHistory, endocrineVars, receptorVars,
                   hpa_state, current_surges, autonomic_state, last_tick>>

NextVitals == CallVitalsStep

SpecVitals == Init /\ [][NextVitals]_vars

----------------------------------------------------------------------------
(* State machine of the HPARegulator alone *)

MaxHpaCalls == 3

\* stress_inputs dicts
HpaStressInputs == { <<>>, "stress_signal" :> 1000, "stress_signal" :> 5000 }

\* plasma_snapshot dicts: the snapshot of a tick (keyed by the catalog ids),
\* snapshots that hold the key "COR" the regulator reads, below, at and above
\* the threshold, and an empty one
HpaSnapshots ==
    { InitialPlasma, "COR" :> 0, "COR" :> 100, "COR" :> 150, "COR" :> 2000, <<>> }

CallHpaStep ==
    /\ n_calls < MaxHpaCalls
    /\ \E stress_inputs \in HpaStressInputs, plasma_snapshot \in HpaSnapshots, dt \in {1} :
       \E out \in {HpaStep(hpa_state, stress_inputs, plasma_snapshot, dt)} :
          /\ hpa_state' = out.hpa
          /\ last_op' = [name |-> "hpa_step", dt |-> dt, before |-> plasma, injected |-> 0,
                         stress_inputs |-> stress_inputs,
                         plasma_snapshot |-> plasma_snapshot,
                         prev |-> hpa_state, result |-> out.out]
    /\ n_calls' = n_calls + 1
    /\ UNCHANGED <<clock, bloodVars, bloodHistory, endocrineVars, receptorVars,
                   current_surges, autonomic_state, vitals, last_tick>>

NextHpa == CallHpaStep

SpecHpa == Init /\ [][NextHpa]_vars

----------------------------------------------------------------------------
(* Export and import of the gland states (EndocrineController) and of the  *)
(* reflex surges (FastReflexEngine), between calls that change them        *)

MaxPersistCalls == 4

\* EndocrineController.export_states
ExportStates(sts) == [h_id \in DOMAIN sts |-> sts[h_id]]

\* EndocrineController.load_states
LoadStates(sts, state_map) ==
    [h_id \in DOMAIN sts |-> IF h_id \in DOMAIN state_map THEN state_map[h_id] ELSE sts[h_id]]

\* FastReflexEngine.get_state
ReflexGetState(surges) == [r_id \in DOMAIN surges |-> surges[r_id]]

\* FastReflexEngine.load_state: self.current_surges.update(state)
ReflexLoadState(surges, state) == state @@ surges

CallExportStates ==
    /\ n_calls < MaxPersistCalls
    /\ last_op' = [name |-> "export_states", dt |-> 0, before |-> plasma, injected |-> 0,
                   result |-> ExportStates(states),
                   saved |-> ("glands" :> ExportStates(states)) @@ Saved]
    /\ n_calls' = n_calls + 1
    /\ UNCHANGED <<clock, bloodVars, bloodHistory, endocrineVars, receptorVars, tickVars>>

CallLoadStates ==
    /\ n_calls < MaxPersistCalls
    /\ "glands" \in DOMAIN Saved
    /\ states' = LoadStates(states, Saved.glands)
    /\ last_op' = [name |-> "load_states", dt |-> 0, before |-> plasma, injected |-> 0,
                   prev |-> states, saved |-> Saved]
    /\ n_calls' = n_calls + 1
    /\ UNCHANGED <<clock, bloodVars, bloodHistory, receptorVars, tickVars>>

CallReflexGetState ==
    /\ n_calls < MaxPersistCalls
    /\ last_op' = [name |-> "reflex_get_state", dt |-> 0, before |-> plasma, injected |-> 0,
                   result |-> ReflexGetState(current_surges),
                   saved |-> ("reflex" :> ReflexGetState(current_surges)) @@ Saved]
    /\ n_calls' = n_calls + 1
    /\ UNCHANGED <<clock, bloodVars, bloodHistory, endocrineVars, receptorVars, tickVars>>

CallReflexLoadState ==
    /\ n_calls < MaxPersistCalls
    /\ "reflex" \in DOMAIN Saved
    /\ current_surges' = ReflexLoadState(current_surges, Saved.reflex)
    /\ last_op' = [name |-> "reflex_load_state", dt |-> 0, before |-> plasma, injected |-> 0,
                   prev |-> current_surges, saved |-> Saved]
    /\ n_calls' = n_calls + 1
    /\ UNCHANGED <<clock, bloodVars, bloodHistory, endocrineVars, receptorVars,
                   hpa_state, autonomic_state, vitals, last_tick>>

NextPersist ==
    \/ CallTriggerNerveSurge
    \/ CallCalculateSurges
    \/ CallExportStates
    \/ CallLoadStates
    \/ CallReflexGetState
    \/ CallReflexLoadState

SpecPersist == Init /\ [][NextPersist]_vars

----------------------------------------------------------------------------
(* State machine of the EndocrineController stepped tick after tick, with   *)
(* glands whose stimulus stays at or below 0.05 from some tick on.  The     *)
(* record quiet_since keeps, for each such gland, its drive and adaptation    *)
(* at that tick.                                                            *)

\* steps taken before the first gland goes quiet, or with a stimulus above 0.05
MaxFreeSteps == 2

\* the stimuli of an EndocrineController.step call
SettleStimuli ==
    { <<>>,
      ADRENALINE :> 1000,
      ADRENALINE :> 50 @@ CORTISOL :> 1000,
      ADRENALINE :> 1000 @@ CORTISOL :> 500,
      ADRENALINE :> -1000 @@ CORTISOL :> 50 }
\* its dt, always positive
SettleDtValues == {5, 10}
\* its inhibition
SettleInhibitions == {500}

QuietSince == IF "quiet_since" \in DOMAIN last_op THEN last_op.quiet_since ELSE <<>>

\* EndocrineController.step, called again and again
CallEndocrineStepAgain ==
    \E stimuli \in SettleStimuli, dt \in SettleDtValues, inhibition \in SettleInhibitions,
       fresh \in SUBSET Catalog :
       /\ \A h \in DOMAIN QuietSince : Get(stimuli, h, 0) <= 50
       /\ \E counted \in {DOMAIN QuietSince = {} \/ \E h \in Catalog : Get(stimuli, h, 0) > 50} :
             /\ counted => n_calls < MaxFreeSteps
             /\ n_calls' = IF counted THEN n_calls + 1 ELSE n_calls
       /\ \E out \in {EndocrineStep(states, stimuli, dt, inhibition, [h \in Catalog |-> 0])} :
             /\ states' = out.gland_state
             /\ last_op' = [name |-> "endocrine_step", dt |-> dt, before |-> plasma,
                            injected |-> 0,
                            quiet_since |->
                               [h \in DOMAIN QuietSince \cup fresh |->
                                   IF h \in DOMAIN QuietSince THEN QuietSince[h]
                                   ELSE [drive |-> out.gland_state[h].drive,
                                         adaptation |-> out.gland_state[h].adaptation]]]
       /\ UNCHANGED <<clock, bloodVars, bloodHistory, receptorVars, tickVars>>

NextSettle == CallEndocrineStepAgain

\* runs in which the caller keeps stepping the controller: a step that would
\* change the gland states is eventually taken
SpecSettle == Init /\ [][NextSettle]_vars /\ WF_vars(CallEndocrineStepAgain)

----------------------------------------------------------------------------
(* Properties of the BloodEngine *)

\* ids of the entries the queue holds
QueuedIds == {influx_queue[i].id : i \in DOMAIN influx_queue}

\* C5: an influx scheduled with delay d contributes nothing while the
\* simulated time accumulated by the following step(dt) calls is < d, and has
\* been applied once a step ended with accumulated simulated time >= d.
C5_DelayedBySimulatedTime ==
    \A i \in DOMAIN scheduled :
        LET elapsed == sim_time - scheduled[i].sim_at
        IN /\ elapsed < scheduled[i].delay_sec => applied[i] = 0
           /\ (scheduled[i].stepped /\ elapsed >= scheduled[i].delay_sec) => applied[i] >= 1

\* C6: every scheduled entry is injected at most once; it is queued exactly
\* as long as it has not been injected (so none is dropped unapplied, and an
\* applied one is removed), and a queued entry keeps its hormone id and mass.
C6_AppliedAtMostOnce ==
    /\ \A i \in DOMAIN scheduled :
          /\ applied[i] \in {0, 1}
          /\ applied[i] = 0 <=> i \in QueuedIds
    /\ \A k \in DOMAIN influx_queue :
          LET e == influx_queue[k]
          IN /\ e.id \in DOMAIN scheduled
             /\ e.hormone_id = scheduled[e.id].hormone_id
             /\ e.mass_pg = scheduled[e.id].mass_pg
             /\ \A j \in DOMAIN influx_queue : influx_queue[j].id = e.id => j = k

\* C6 witness: one entry has been applied by a step and removed while another,
\* not yet due, is still queued
C6_Witness ==
    /\ last_op.name = "step"
    /\ \E i, j \in DOMAIN scheduled :
          applied[i] = 1 /\ i \notin QueuedIds /\ applied[j] = 0 /\ j \in QueuedIds

\* C8: a BloodEngine.step that injects nothing from the queue never raises a
\* concentration that is within [conc_min, conc_max], whatever dt and flow.
C8_DecayNeverIncreases ==
    [][(CallBloodStep /\ applied' = applied) =>
         \A h \in DOMAIN plasma :
            (conc_min <= plasma[h] /\ plasma[h] <= conc_max) => plasma'[h] <= plasma[h]]_vars

\* C8 witness: a step with dt > 0 and no injection has lowered adrenaline,
\* which an earlier negative injection had put below its baseline
C8_Witness ==
    /\ last_op.name = "step" /\ last_op.dt > 0 /\ last_op.injected = 0
    /\ last_op.before[ADRENALINE] < hormone_specs[ADRENALINE].baseline
    /\ plasma[ADRENALINE] < last_op.before[ADRENALINE]

----------------------------------------------------------------------------
(* Properties of the EndocrineController *)

\* C9: after any sequence of endocrine steps (stimulus in [-1, 1], dt >= 0,
\* any inhibition) every gland has inventory in [0, max_capacity],
\* adaptation in [0.1, 1.0] and drive in [0, 10].
C9_GlandStateBounded ==
    \A h \in Catalog :
        /\ 0 <= states[h].inventory /\ states[h].inventory <= inventory_max(h)
        /\ ADAPTATION_MIN <= states[h].adaptation /\ states[h].adaptation <= ADAPTATION_MAX
        /\ 0 <= states[h].drive /\ states[h].drive <= DRIVE_MAX

\* C9 witness: a gland driven to an empty inventory whose adaptation sits on
\* its floor, with a positive drive left
C9_Witness ==
    /\ last_op.name = "endocrine_step"
    /\ \E h \in Catalog :
          /\ states[h].inventory = 0
          /\ states[h].adaptation = ADAPTATION_MIN
          /\ states[h].drive > 0

----------------------------------------------------------------------------
(* Properties of a ReceptorUnit *)

\* C10: after any sequence of calculate_signal calls (concentration >= 0,
\* dt >= 0) the sensitization is in [0.1, 2.0] and the occupation in [0, 1].
C10_ReceptorBounded ==
    \A r \in ReceptorIds :
        /\ 100 <= receptors[r].sensitization /\ receptors[r].sensitization <= 2000
        /\ 0 <= receptors[r].occupation_rate /\ receptors[r].occupation_rate <= 1000

\* C10 witness: a long call under high occupation has pushed a unit's
\* sensitization onto the bound np.clip enforces
C10_Witness ==
    /\ last_op.name = "calculate_signal"
    /\ last_op.dt > 3600
    /\ \E r \in ReceptorIds :
          receptors[r].sensitization = 100 /\ receptors[r].occupation_rate > 700

\* C14: an instantaneous injection of mass m for a catalog hormone leaves
\* its concentration at the prior level plus m / dist_volume_ml, clamped to
\* [conc_min, conc_max].
C14_InfluxAddsMassOverVolume ==
    (last_op.name = "apply_hormone_influx" /\ last_op.h \in Catalog) =>
        last_op.after[last_op.h]
          = clamp(last_op.before[last_op.h] + Quot(last_op.mass_pg, dist_volume_ml),
                  conc_min, conc_max)

----------------------------------------------------------------------------
(* Properties of the PhysioCore tick *)

\* C1: after any sequence of BloodEngine operations and of full ticks,
\* the baseline clamp of the tick included, every plasma concentration
\* lies in [conc_min, conc_max].
C1_ConcentrationsWithinBounds ==
    \A h \in DOMAIN plasma : conc_min <= plasma[h] /\ plasma[h] <= conc_max

\* C2: in the baseline clamp of a tick a catalog hormone whose post-decay
\* concentration is below its configured baseline concentration is set to
\* exactly that baseline, and one at or above its baseline is left as it
\* is (so the clamp never raises a value above the baseline).
C2_FloorSetsExactlyBaseline ==
    last_tick.n > 0 =>
       \A h \in Catalog :
          LET before == Get(last_tick.post_decay, h, 0)
              after == last_tick.result.blood[h]
          IN IF before < baseline_pg_ml(h) THEN after = baseline_pg_ml(h)
             ELSE after = before

\* C3: the inhibition a tick hands to the glands is the vagal tone the
\* Vitals held before the tick (computed by the tick before, or the initial
\* tone), and the glands' new state is the one that tone gives; the tone
\* the tick itself computes is not used by it.
C3_VagusUsedNextTick ==
    [][last_tick'.n = last_tick.n + 1 =>
          /\ last_tick'.inhibition = vitals.vagus_tone
          /\ states' = EndocrineStep(states, last_tick'.endo_stimuli, last_tick'.dt,
                                     vitals.vagus_tone, last_tick'.noise).gland_state]_vars

\* a second tick ran on the tone the first tick computed, which is neither
\* the initial tone nor the tone the second tick computed
C3_Witness ==
    /\ last_tick.n >= 2
    /\ last_tick.inhibition # InitialVitals.vagus_tone
    /\ last_tick.inhibition # vitals.vagus_tone
    /\ last_tick.dt > 0

\* internal state and returned dict of a tick, without the time stamps
TickOutcome(t) ==
    <<[t.engine EXCEPT !.blood = [@ EXCEPT !.last_decay_ts = <<>>]], t.result>>

\* C4: two engines in the same state that get the same stimuli, external
\* inputs, dt and noise draws end the tick in the same state with the same
\* result, whether the call is made now or a second later.
C4_TickDeterministic ==
    \A eva_stimuli \in TickStimuli, dt \in TickDtValues, env \in TickEnvs :
       TickOutcome(RunTick(Engine, eva_stimuli, env.zeitgebers, dt, clock,
                           env.hour, env.noise))
       = TickOutcome(RunTick(Engine, eva_stimuli, env.zeitgebers, dt, clock + 1,
                             env.hour, env.noise))

\* 5 * half_life / ln 2 seconds, rounded up
ConvergenceTime(h) == (5 * 1000 * hormone_specs[h].half_life_sec) \div LN2 + 1

\* a tenth of the baseline
Epsilon(h) == baseline_pg_ml(h) \div 10

\* C7: once zero-stimulus ticks of one fixed dt have covered the
\* convergence time of a hormone, its plasma concentration is within epsilon
\* of its configured baseline.
C7_ConvergesToBaseline ==
    \A h \in Catalog :
       last_tick.quiet_time >= ConvergenceTime(h) =>
          /\ plasma[h] - baseline_pg_ml(h) <= Epsilon(h)
          /\ baseline_pg_ml(h) - plasma[h] <= Epsilon(h)

----------------------------------------------------------------------------
(* Properties of the FastReflexEngine *)

\* C11: whatever the stimulus intensity and the sequence of calculate_surges
\* calls (dt >= 0), every per-receptor surge returned and stored is at most
\* Saturation_Cutoff.
C11_SurgeSaturates ==
    /\ \A r_id \in DOMAIN current_surges : current_surges[r_id] <= Saturation_Cutoff
    /\ last_op.name = "calculate_surges" =>
          \A r_id \in DOMAIN last_op.result : last_op.result[r_id] <= Saturation_Cutoff

\* a call whose pathways together gave one receptor more than the cutoff, on
\* top of a carry-over, with the stored surge at the cutoff
C11_Witness ==
    /\ last_op.name = "calculate_surges"
    /\ \E r_id \in DOMAIN current_surges :
          /\ current_surges[r_id] = Saturation_Cutoff
          /\ Get(last_op.prev, r_id, 0) > 0
          /\ Get(NewSurges(1, <<>>, last_op.stimuli, last_op.status), r_id, 0)
                > Saturation_Cutoff

----------------------------------------------------------------------------
(* Properties of the ReceptorUnit *)

\* C12: a calculate_signal call with concentration 0 sets the occupation
\* fraction of the unit to 0 and returns signal 0, whatever its sensitization.
C12_ZeroInputLaw ==
    (last_op.name = "calculate_signal" /\ last_op.concentration = 0) =>
        /\ receptors[last_op.r].occupation_rate = 0
        /\ last_op.result = 0

\* a zero-concentration call on a desensitized unit that was occupied
C12_Witness ==
    /\ last_op.name = "calculate_signal"
    /\ last_op.concentration = 0
    /\ last_op.prev.sensitization < 1000
    /\ last_op.prev.occupation_rate > 0
    /\ receptors[last_op.r].occupation_rate = 0

----------------------------------------------------------------------------
(* Properties of the EndocrineGland *)

\* the release the nerve surge is to make: inventory * 0.40 * s * adaptation,
\* at most the inventory
SurgeRelease(inventory, s, adaptation) ==
    Min(inventory, (((inventory * ((400 * s) \div 1000)) \div 1000) * adaptation) \div 1000)

\* C13: a nerve surge with stimulus s >= 0.8 releases
\* min(inventory, inventory * 0.40 * s * adaptation), takes exactly that from
\* the inventory, raises the drive by 5 s (at most 10) and sets adaptation to
\* max(0.1, adaptation - 0.15 s); with s < 0.8 it releases 0 and leaves the
\* state as it was.  Inventory 1000, s = 0.9, adaptation 1.0 gives release
\* 360, inventory 640, adaptation 0.865.
C13_NerveSurge ==
    /\ last_op.name = "trigger_nerve_surge" =>
          LET p == last_op.prev
              s == last_op.stimulus
              q == states[last_op.h]
          IN IF s >= 800
             THEN /\ last_op.result = SurgeRelease(p.inventory, s, p.adaptation)
                  /\ q.inventory = p.inventory - last_op.result
                  /\ q.drive = Min(1000000, p.drive + 500 * s)
                  /\ q.adaptation = Max(100, p.adaptation - (150 * s) \div 1000)
             ELSE last_op.result = 0 /\ q = p
    /\ LET out == TriggerNerveSurge(ADRENALINE,
                     [inventory |-> 100000, adaptation |-> 1000, drive |-> 0,
                      last_flux_pg |-> 0, basal_rate_pg_sec |-> 0], 900)
       IN /\ out.released = 36000
          /\ out.state.inventory = 64000
          /\ out.state.adaptation = 865

\* a surge on a fatigued gland: the adaptation ends at its floor, and the
\* release is a positive part of the inventory
C13_Witness ==
    /\ last_op.name = "trigger_nerve_surge"
    /\ last_op.stimulus >= 800
    /\ last_op.prev.adaptation < 250
    /\ states[last_op.h].adaptation = 100
    /\ last_op.result > 0
    /\ last_op.result < last_op.prev.inventory

\* the outcome of the single ticks PhysioCore.step makes for the chunks of a
\* list of at most two chunks, one after the other, each with the full dt
ConsecutiveTicks(e, chunks, dt, now, env) ==
    IF Len(chunks) = 0 THEN [engine |-> e, result |-> <<>>]
    ELSE IF Len(chunks) = 1
    THEN RunTick(e, chunks[1], env.zeitgebers, dt, now, env.hour, env.noise)
    ELSE RunTick(RunTick(e, chunks[1], env.zeitgebers, dt, now, env.hour, env.noise).engine,
                 chunks[2], env.zeitgebers, dt, now, env.hour, env.noise)

\* C15: a step call with a list of n chunks leaves the engine in the state
\* that n consecutive single-chunk ticks in list order, each with the full
\* dt, leave it in, and returns the result of the last of them.
C15_ListIsConsecutiveTicks ==
    [][(last_op'.name = "step_list" /\ clock' = clock) =>
          LET expected == ConsecutiveTicks(Engine, last_op'.chunks, last_op'.dt, clock,
                                           last_op'.env)
          IN /\ Engine' = expected.engine
             /\ last_op'.result = expected.result]_vars

\* a list of two chunks was stepped with dt > 0 and changed the gland states
C15_Witness ==
    /\ last_op.name = "step_list"
    /\ Len(last_op.chunks) = 2
    /\ last_op.dt > 0
    /\ last_tick.n >= 2
    /\ last_op.result = last_tick.result
    /\ \E h \in Catalog : states[h].inventory < inventory_max(h)


\* C16: get_snapshot / get_state changes no state of the engine and does not
\* advance the simulation; the plasma levels it returns are the stored ones.
C16_SnapshotReadsOnly ==
    [][(last_op'.name = "get_snapshot" /\ clock' = clock) =>
          /\ Engine' = Engine
          /\ sim_time' = sim_time
          /\ last_tick' = last_tick
          /\ last_op'.result.blood = plasma]_vars

\* a snapshot taken after a tick, when wall-clock time has passed since the
\* last decay of a hormone that is above zero
C16_Witness ==
    /\ last_op.name = "get_snapshot"
    /\ last_tick.n >= 1
    /\ \E h \in Catalog : last_decay_ts[h] < clock /\ plasma[h] > 0


\* C17: after importing an exported snapshot s, the state of the subsystem
\* equals s (so that a following export returns s), whatever it held before.
C17_ImportRestoresSnapshot ==
    /\ last_op.name = "load_states" => ExportStates(states) = last_op.saved.glands
    /\ last_op.name = "reflex_load_state" =>
           ReflexGetState(current_surges) = last_op.saved.reflex

\* the gland half of C17 alone
C17_GlandImportRestoresSnapshot ==
    last_op.name = "load_states" => ExportStates(states) = last_op.saved.glands

\* gland states were imported over states that differed from the snapshot
C17_GlandWitness ==
    /\ last_op.name = "load_states"
    /\ last_op.prev # last_op.saved.glands


\* C18: an instantaneous injection for a hormone id that is not in the catalog
\* is ignored: afterwards the plasma store holds no entry for that id, and the
\* levels of the catalog hormones are what they were.
C18_UnknownIdIgnored ==
    (last_op.name = "apply_hormone_influx" /\ last_op.h \notin Catalog) =>
        /\ last_op.h \notin DOMAIN last_op.after
        /\ \A h \in Catalog : last_op.after[h] = last_op.before[h]

\* the regulator half of C18 alone: a tick whose endocrine stimuli hold a key
\* that is not in the catalog leaves plasma and gland states keyed by the
\* catalog only
C18_TickIgnoresUnknownIds ==
    (last_tick.n >= 1 /\ \E k \in DOMAIN last_tick.endo_stimuli : k \notin Catalog) =>
        /\ DOMAIN plasma = Catalog
        /\ DOMAIN states = Catalog
        /\ DOMAIN last_tick.result.blood = Catalog

\* a tick ran with a regulator output keyed by an id outside the catalog
C18_TickWitness ==
    /\ last_tick.n >= 1
    /\ \E k \in DOMAIN last_tick.endo_stimuli :
          k \notin Catalog /\ last_tick.endo_stimuli[k] # 0


\* C19: both values of the autonomic state are within [0, 1] in every state,
\* the initial one included, after any steps with alpha in [0, 1], whatever
\* the signals, surges and weights; so is the state each step returns.
C19_AutonomicWithinUnit ==
    /\ \A b \in DOMAIN autonomic_state :
          autonomic_state[b] >= 0 /\ autonomic_state[b] <= 1000
    /\ last_op.name = "autonomic_step" =>
          \A b \in DOMAIN last_op.result :
              last_op.result[b] >= 0 /\ last_op.result[b] <= 1000

\* a step whose weighted sums lie outside [0, 1] on both sides moved the state
C19_Witness ==
    /\ last_op.name = "autonomic_step"
    /\ last_op.alpha > 0
    /\ last_op.raw["sympathetic"] < 0
    /\ last_op.raw["parasympathetic"] > 1000
    /\ autonomic_state # last_op.prev


\* C20: in every state, the initial one included, the vagal tone held by the
\* vitals is within [0, 1], whatever the respiration rate and the
\* parasympathetic level, so the inhibition handed to the glands is within
\* [0, 1]; and the breathing phase is within [0, 2*pi).
C20_VagusAndPhaseBounded ==
    /\ vitals.vagus_tone >= 0 /\ vitals.vagus_tone <= 1000
    /\ vitals.breath_phase >= 0 /\ vitals.breath_phase < 6000
    /\ last_tick.inhibition >= 0 /\ last_tick.inhibition <= 1000
    /\ last_op.name = "vitals_step" =>
          /\ last_op.result.vagus_tone = vitals.vagus_tone
          /\ last_op.result.breath_phase = vitals.breath_phase

\* a step at more than 40 breaths per minute, after a step that had raised
\* the tone to 1, took the tone to 0 and wrapped the breathing phase
C20_Witness ==
    /\ last_op.name = "vitals_step"
    /\ vitals.rpm > 4000
    /\ last_op.prev.vagus_tone = 1000
    /\ vitals.vagus_tone = 0
    /\ last_op.prev.breath_phase + vitals.rpm * last_op.dt >= 6000

\* a tick handed the glands an inhibition other than the initial vagal tone
C20_TickWitness ==
    /\ last_tick.n >= 2
    /\ last_tick.inhibition # InitialVitals.vagus_tone
    /\ vitals.breath_phase > 0


C22_StimuliClamped ==
    [][(last_tick'.n > last_tick.n) =>
          LET es == last_tick'.endo_stimuli
              handed == [h \in Catalog |-> IF h \in DOMAIN es THEN es[h] ELSE 0]
          IN /\ \A k \in DOMAIN es : es[k] >= -1000 /\ es[k] <= 1000
             /\ \A h \in Catalog : handed[h] >= -1000 /\ handed[h] <= 1000
             /\ last_tick'.n = last_tick.n + 1 =>
                   \A h \in Catalog :
                      states'[h] = GlandStep(h, states[h], handed, last_tick'.dt,
                                             vitals.vagus_tone, last_tick'.noise[h]).state]_vars

\* a tick whose named stimulus gave adrenaline a sum of 1.5, handed over as 1
C22_Witness ==
    /\ last_op.name = "tick" /\ last_op.dt > 0
    /\ Get(last_op.eva_stimuli, "acute_threat", 0) = 1000
    /\ Get(last_tick.endo_stimuli, ADRENALINE, 0) = 1000
    /\ states[ADRENALINE].drive > 0

\* a tick in which adrenaline had no stimulus value at all
C22_NoDeltaWitness ==
    /\ last_op.name = "tick" /\ last_op.dt > 0
    /\ ADRENALINE \notin DOMAIN last_tick.endo_stimuli
    /\ CORTISOL \in DOMAIN last_tick.endo_stimuli

\* a tick whose named stimulus gave adrenaline a sum of -1.5, handed over as -1
C22_LowerWitness ==
    /\ last_op.name = "step_list"
    /\ Get(last_tick.endo_stimuli, ADRENALINE, 0) = -1000


\* 1 - clamp(inhibition, 0, 0.9), in thousandths
InhibitionFactor(inhibition) == 1000 - clamp(inhibition, 0, 900)

\* C23: in the tonic step the stimulated potential and the basal production
\* are both multiplied by 1 - clamp(inhibition, 0, 0.9), a factor within
\* [0.1, 1.0]: the release is the uninhibited stimulated and basal potentials,
\* each times the factor, capped at the refilled inventory; a negative
\* inhibition gives the uninhibited release and never more.
C23_InhibitionFactor ==
    last_op.name = "process_step" =>
       LET h == last_op.h
           prev == last_op.prev
           dt == last_op.dt
           mult == InhibitionFactor(last_op.inhibition)
           free == ProcessStep(h, prev, last_op.stimulus, dt, 0, last_op.noise)
           refilled == free.state.inventory + free.released
           total == ProcessStepUncapped(h, prev, last_op.stimulus, dt, 0,
                                        last_op.noise).released
           stimulated == ProcessStepUncapped(h, [prev EXCEPT !.basal_rate_pg_sec = 0],
                                             last_op.stimulus, dt, 0, last_op.noise).released
           basal_rate == IF dt = 0 THEN 0 ELSE (total - stimulated) \div dt
       IN /\ mult >= 100 /\ mult <= 1000
          /\ last_op.result
               = Min(refilled,
                     (stimulated * mult) \div 1000 + ((basal_rate * mult) \div 1000) * dt)
          /\ last_op.result <= free.released
          /\ last_op.inhibition <= 0 => last_op.result = free.released

\* a tonic step with inhibition above 0.9 released a tenth of a potential of
\* which both the stimulated and the basal part are above zero
C23_Witness ==
    /\ last_op.name = "process_step"
    /\ last_op.inhibition > 900 /\ last_op.dt > 0
    /\ last_op.prev.basal_rate_pg_sec > 0 /\ last_op.prev.drive > 0
    /\ last_op.result > 0
    /\ last_op.result < states[last_op.h].inventory + last_op.result
    /\ last_op.result < ProcessStep(last_op.h, last_op.prev, last_op.stimulus, last_op.dt,
                                    0, last_op.noise).released

\* a tonic step with a negative inhibition
C23_NegativeWitness ==
    /\ last_op.name = "process_step"
    /\ last_op.inhibition < 0 /\ last_op.result > 0


\* C24: in the tonic step the released mass is min(stimulated + basal
\* potential, inventory after refill), is >= 0, and the inventory left is the
\* refilled inventory less exactly the released mass; and what a gland
\* releases in a controller step (surge + tonic) from the same state is
\* >= 0 and at most the inventory at the start plus the refill of the step.
C24_ReleaseCappedAndConserved ==
    last_op.name = "process_step" =>
       LET h == last_op.h
           prev == last_op.prev
           dt == last_op.dt
           refilled == Min(inventory_max(h), prev.inventory + refill_rate(h) * dt)
           potential == ProcessStepUncapped(h, prev, last_op.stimulus, dt, last_op.inhibition,
                                            last_op.noise).released
           gland == GlandStep(h, prev, h :> last_op.stimulus, dt, last_op.inhibition,
                              last_op.noise)
       IN /\ last_op.result = Min(potential, refilled)
          /\ last_op.result >= 0
          /\ states[h].inventory = refilled - last_op.result
          /\ states[h].inventory >= 0
          /\ gland.total_pg >= 0
          /\ gland.total_pg <= prev.inventory + refill_rate(h) * dt
          /\ gland.state.inventory + gland.total_pg <= prev.inventory + refill_rate(h) * dt

\* a tonic step whose potential was above the refilled inventory: the gland
\* released all it held
C24_Witness ==
    /\ last_op.name = "process_step" /\ last_op.dt > 0
    /\ last_op.result > 0
    /\ states[last_op.h].inventory = 0
    /\ ProcessStepUncapped(last_op.h, last_op.prev, last_op.stimulus, last_op.dt,
                           last_op.inhibition, last_op.noise).released > last_op.result

\* a tonic step below the cap that released mass and left inventory
C24_UncappedWitness ==
    /\ last_op.name = "process_step" /\ last_op.dt > 0
    /\ last_op.result > 0 /\ states[last_op.h].inventory > 0
    /\ last_op.stimulus >= 800


\* C25: after a tick, every configured pathway whose stimulus had an intensity
\* > 0 and whose target gland holds a relative inventory at or above the
\* inhibition threshold has given its target a surge > 0, which is at most
\* the saturation cutoff.
C25_TickSurgePositive ==
    last_op.name = "tick" =>
       \A i \in 1..Len(pathways) :
          LET path == pathways[i]
              target == path.target_receptor
              relative == (states[target].inventory * 1000) \div Max(1, inventory_max(target))
          IN (/\ Get(last_op.eva_stimuli, path.stimulus_type, 0) > 0
              /\ path.gain_modifier > 0
              /\ relative >= Inhibition_Threshold)
             => /\ Get(current_surges, target, 0) > 0
                /\ Get(current_surges, target, 0) <= Saturation_Cutoff


\* C26: the negative feedback reduces the output of the stress axis only when
\* the plasma cortisol it reads is above the threshold: at or below the
\* threshold the output is the clamped unsuppressed adrenal drive, above it
\* the drive is multiplied by a factor within [1 - strength, 1].
C26_FeedbackAboveThresholdOnly ==
    (last_op.name = "hpa_step" /\ DOMAIN last_op.plasma_snapshot # {}) =>
       LET cor_level == Get(last_op.plasma_snapshot, "COR", 0)
           cortisol_drive == Quot(hpa_state.acth * adrenal_gain, 1000)
           unsuppressed == clamp(cortisol_drive, stimulus_min, stimulus_max)
           floor == clamp(Quot(cortisol_drive * (1000 - feedback_strength), 1000),
                          stimulus_min, stimulus_max)
       IN /\ cor_level <= feedback_threshold => last_op.result["COR"] = unsuppressed
          /\ cor_level > feedback_threshold =>
                 last_op.result["COR"] >= floor /\ last_op.result["COR"] <= unsuppressed

\* the part of C26 above the threshold alone
C26_SuppressionBounded ==
    (last_op.name = "hpa_step" /\ DOMAIN last_op.plasma_snapshot # {}) =>
       LET cortisol_drive == Quot(hpa_state.acth * adrenal_gain, 1000)
       IN /\ last_op.result["COR"] <= clamp(cortisol_drive, stimulus_min, stimulus_max)
          /\ last_op.result["COR"]
                >= clamp(Quot(cortisol_drive * (1000 - feedback_strength), 1000),
                         stimulus_min, stimulus_max)

\* a step with cortisol far above the threshold and a drive above zero
C26_SuppressedWitness ==
    /\ last_op.name = "hpa_step"
    /\ Get(last_op.plasma_snapshot, "COR", 0) > feedback_threshold
    /\ last_op.result["COR"] > 0
    /\ last_op.result["COR"] < Quot(hpa_state.acth * adrenal_gain, 1000)


\* C27: on every calculate_signal call with dt > 0, whatever the
\* concentration, the sensitization moves toward its target by
\* (target - sensitization) * dt / tau (and is kept within [0.1, 2.0]), with
\* target max(0.2, 1.0 - (occ - 0.7)) and tau one hour if the occupation is
\* above 0.7, else target 1.0 and tau two hours.
C27_PlasticityOnEveryCall ==
    (last_op.name = "calculate_signal" /\ last_op.dt > 0) =>
       LET unit == receptors[last_op.r]
           occ == unit.occupation_rate
           target == IF occ > 700 THEN Max(200, 1000 - (occ - 700)) ELSE 1000
           tau == IF occ > 700 THEN 3600 ELSE 7200
           s == last_op.prev.sensitization
       IN unit.sensitization = clamp(s + Quot((target - s) * last_op.dt, tau), 100, 2000)

\* the same law on the calls with an effective concentration above zero
C27_PlasticityOnPositiveInput ==
    (last_op.name = "calculate_signal" /\ last_op.dt > 0
       /\ last_op.concentration * last_op.prev.sensitization >= 1000) =>
       LET unit == receptors[last_op.r]
           occ == unit.occupation_rate
           target == IF occ > 700 THEN Max(200, 1000 - (occ - 700)) ELSE 1000
           tau == IF occ > 700 THEN 3600 ELSE 7200
           s == last_op.prev.sensitization
       IN unit.sensitization = clamp(s + Quot((target - s) * last_op.dt, tau), 100, 2000)

\* a call with concentration above zero moved the sensitization
C27_PositiveWitness ==
    /\ last_op.name = "calculate_signal" /\ last_op.dt > 0
    /\ last_op.concentration > 0
    /\ receptors[last_op.r].sensitization # last_op.prev.sensitization


\* C28: a call with dt of one hour pulls the sensitization toward a
\* target above 1.0 when the occupation is below 0.1 (so a sensitization at
\* or below 1.0 rises), toward a target below 1.0 when the occupation is
\* above 0.7 (so a sensitization at or above 1.0 falls), and toward 1.0
\* otherwise.
C28_Resensitization ==
    (last_op.name = "calculate_signal" /\ last_op.dt = 3600) =>
       LET occ == receptors[last_op.r].occupation_rate
           before == last_op.prev.sensitization
           after == receptors[last_op.r].sensitization
       IN /\ (occ < 100 /\ before <= 1000) => after > before
          /\ (occ > 700 /\ before >= 1000) => after < before
          /\ (occ >= 100 /\ occ <= 700 /\ before < 1000) => (after > before /\ after <= 1000)
          /\ (occ >= 100 /\ occ <= 700 /\ before = 1000) => after = 1000

\* the parts of C28 for an occupation of 0.1 and above
C28_DesensitizationAndDecay ==
    (last_op.name = "calculate_signal" /\ last_op.dt = 3600) =>
       LET occ == receptors[last_op.r].occupation_rate
           before == last_op.prev.sensitization
           after == receptors[last_op.r].sensitization
       IN /\ (occ > 700 /\ before >= 1000) => after < before
          /\ (occ >= 100 /\ occ <= 700 /\ before < 1000) => (after > before /\ after <= 1000)
          /\ (occ >= 100 /\ occ <= 700 /\ before = 1000) => after = 1000

\* a desensitized unit decayed back toward 1.0 at an occupation within
\* [0.1, 0.7]
C28_DecayWitness ==
    /\ last_op.name = "calculate_signal" /\ last_op.dt >= 3600
    /\ receptors[last_op.r].occupation_rate >= 100
    /\ receptors[last_op.r].occupation_rate <= 700
    /\ last_op.prev.sensitization < 1000
    /\ receptors[last_op.r].sensitization > last_op.prev.sensitization


C30_QuietGlandSettles ==
    /\ [][\A h \in DOMAIN QuietSince :
             /\ states'[h].drive <= states[h].drive
             /\ states'[h].adaptation >= states[h].adaptation]_vars
    /\ <>[](\A h \in DOMAIN QuietSince :
                states[h].drive = 0 /\ states[h].adaptation = ADAPTATION_MAX)

\* a gland that went quiet with a positive drive and a reduced adaptation has
\* settled at drive 0 and adaptation 1.0
C30_Witness ==
    \E h \in DOMAIN QuietSince :
       /\ QuietSince[h].drive > 0
       /\ QuietSince[h].adaptation < ADAPTATION_MAX
       /\ states[h].drive = 0
       /\ states[h].adaptation = ADAPTATION_MAX

====
